---- MODULE Spec2Model ----
(***************************************************************************)
(* Model of lensless/hardware/mask.py and lensless/eval/benchmark.py: the   *)
(* Mask constructor lifecycle (argument validation, create_mask,            *)
(* compute_psf), the CodedAperture pattern generators (MURA, MLS) and its   *)
(* separable simulation, MultiLensArray (validation, greedy placement,      *)
(* height map), HeightVarying, PhaseContour and phase_retrieval, the        *)
(* process-wide random generator the masks share, and the benchmark loop.   *)
(*                                                                          *)
(* Conventions.  Arrays are indexed from 0 as in the source.  An ndarray is *)
(* a record [shape, data] with data in row-major order over                 *)
(* 0 .. (number of elements - 1).  Physical lengths (size, feature_size,    *)
(* radii, centers) are fixed-point numbers: integers counting the smallest  *)
(* representable unit, and a division rounds to the nearest unit as a      *)
(* floating-point division rounds to the nearest representable value.      *)
(***************************************************************************)
EXTENDS Integers, Sequences, FiniteSets, TLC

VARIABLES
    pc,            \* position of the constructor: start, create_mask, compute_psf, done, aborted, failed
    args,          \* the constructor's keyword arguments
    resolution,    \* self.resolution
    size,          \* self.size
    feature_size,  \* self.feature_size
    mask,          \* self.mask (the field)
    row,           \* self.row
    col,           \* self.col
    seq,           \* local seq of create_mask (MLS), kept for inspection
    pattern,       \* value returned by squarepattern (MURA), kept for inspection
    raw_mask,      \* self.mask as it is before the upscaling step
    psf_buf,       \* local psf of compute_psf: one complex slice per wavelength
    psf_i,         \* loop index of compute_psf
    psf,           \* self.psf
    calls,         \* the calls made so far, in order
    error,         \* the exception that ended construction, or None
    sim,           \* the last simulate() call: its inputs and its outcome
    ppc,           \* position of place_spheres_on_plane
    p_args,        \* its arguments
    radius_sorted, \* its local radius_sorted
    placed_circles,\* its local placed_circles
    r_idx,         \* index into radius_sorted of the outer loop
    attempt,       \* attempts made for the current radius
    log,           \* lines printed by place_spheres_on_plane
    p_result,      \* what place_spheres_on_plane returned or raised
    trials,        \* candidates drawn so far by place_spheres_on_plane
    rng,           \* state of the process-wide generator behind np.random
    script,        \* the constructor calls the process makes, in order
    built,         \* the masks constructed so far in the process, in order
    pr_pc,         \* position of phase_retrieval
    pr_args,       \* its arguments
    M_p,           \* its local M_p (sensor-plane estimate)
    M_phi,         \* its local M_phi (mask-plane estimate), unbound until a round ran
    pr_round,      \* rounds of its loop completed
    pr_calls,      \* the operations it performed, in order
    pr_result,     \* what it returned or raised
    b_pc,          \* position of benchmark
    b_args,        \* its arguments and the predictions the model will give
    b_idx,         \* its local idx
    batch_no,      \* batches taken from the dataloader
    prediction,    \* its local prediction for the current batch
    metrics_values,\* its accumulator, one entry per metric
    b_log,         \* what it printed, saved and called on the model, in order
    b_result       \* what it returned or raised

vars == <<pc, args, resolution, size, feature_size, mask, row, col, seq, pattern,
          raw_mask, psf_buf, psf_i, psf, calls, error, sim,
          ppc, p_args, radius_sorted, placed_circles, r_idx, attempt, log, p_result,
          trials, rng, script, built, pr_pc, pr_args, M_p, M_phi, pr_round, pr_calls, pr_result,
          b_pc, b_args, b_idx, batch_no, prediction, metrics_values, b_log, b_result>>

maskVars == <<pc, args, resolution, size, feature_size, mask, row, col, seq, pattern,
              raw_mask, psf_buf, psf_i, psf, calls, error>>

placeVars == <<ppc, p_args, radius_sorted, placed_circles, r_idx, attempt, log, p_result,
               trials>>

procVars == <<rng, script, built>>

prVars == <<pr_pc, pr_args, M_p, M_phi, pr_round, pr_calls, pr_result>>

benchVars == <<b_pc, b_args, b_idx, batch_no, prediction, metrics_values, b_log, b_result>>

extVars == <<procVars, prVars, benchVars>>

None == "None"

\* The generator behind np.random before the process seeded it or drew from it: its
\* state comes from the operating system and is not known
Unseeded == -1

----------------------------------------------------------------------------
(* Bounds of the model *)

MaxRes == 6          \* resolution components range over 1 .. MaxRes
MaxNBits == 4        \* n_bits ranges over 0 .. MaxNBits
MaxSize == 3         \* size components range over 1 .. MaxSize
MaxFeat == 2         \* feature_size components range over 0 .. MaxFeat
MaxSimRes == 5       \* resolution components of the masks that simulate is called on
MaxObj == 3          \* height and width of the objects given to simulate
MaxPlane == 4        \* width and height of the plane range over 1 .. MaxPlane
MaxRadius == 2       \* radii range over 1 .. MaxRadius
MaxLenses == 3       \* at most MaxLenses radii are given
MaxAttempts == 2     \* max_attempts ranges over 0 .. MaxAttempts
MaxIter == 3         \* n_iter of phase_retrieval ranges over 0 .. MaxIter
MaxLoc == 3          \* explicit lens centers have coordinates 1 and MaxLoc
MaxExplicit == 3     \* at most MaxExplicit lenses are given explicitly
MaxHeight == 4       \* entries of a supplied height map range over 0 .. MaxHeight
MaxBuilt == 3        \* a process constructs at most MaxBuilt masks
MaxBatch == 2        \* batchsize of benchmark ranges over 1 .. MaxBatch
MaxSamples == 3      \* the dataset of benchmark has at most MaxSamples samples

----------------------------------------------------------------------------
(* ndarray helpers *)

\* A two-dimensional array of R rows and C columns whose (i, j) entry is f(i, j)
Arr2(R, C, f(_, _)) ==
    [shape |-> <<R, C>>, data |-> [k \in 0 .. (R * C - 1) |-> f(k \div C, k % C)]]

\* a[i, j] of a two-dimensional array
At(a, i, j) == a.data[i * a.shape[2] + j]

\* a.squeeze(): every axis of length one is dropped, the data is kept
Squeeze(a) == [shape |-> SelectSeq(a.shape, LAMBDA n : n # 1), data |-> a.data]

\* a[:, :, np.newaxis]
NewAxis(a) == [shape |-> a.shape \o <<1>>, data |-> a.data]

\* np.clip(x, lo, hi) of one entry
Clip(x, lo, hi) == IF x < lo THEN lo ELSE IF x > hi THEN hi ELSE x

\* The number of entries of an array indexed from 0
Len0(f) == Cardinality(DOMAIN f)

\* Division of fixed-point numbers, rounded to the nearest unit (b > 0, a >= 0)
FDiv(a, b) == (2 * a + b) \div (2 * b)

----------------------------------------------------------------------------
(* Mask.__init__, lines 76-105: the resolution / size / feature_size triple *)

NoneArg == [kind |-> "none", v |-> <<>>]
FloatArg(f) == [kind |-> "float", v |-> <<f>>]
IntArg(f) == [kind |-> "int", v |-> <<f>>]
SeqArg(s) == [kind |-> "seq", v |-> s]

\* resolution * feature_size, elementwise; a scalar feature_size is broadcast
MulRes(res, fs) == [i \in 1 .. 2 |-> res[i] * (IF Len(fs) = 1 THEN fs[1] ELSE fs[i])]

\* size / resolution, elementwise, each quotient rounded to the nearest unit
DivRes(sz, res) == [i \in 1 .. 2 |-> FDiv(sz[i], res[i])]

\* Faulty variant of line 96: the assertion never fails
TripleCheckDropped(res, fs, sz) == TRUE

\* Line 96: np.all(resolution * feature_size <= size)
TripleCheck(res, fs, sz) == \A i \in 1 .. 2 : res[i] * fs[i] <= sz[i]

Aborted(err) == [error |-> err, resolution |-> <<>>, size |-> <<>>, feature_size |-> <<>>]

\* Lines 82-96 once resolution has length 2 and one of size, feature_size is given
MaskTriple(res, a) ==
    LET sz == IF a.size.kind = "none" THEN MulRes(res, a.feature_size.v) ELSE a.size.v
        fs == IF a.feature_size.kind = "none" THEN DivRes(sz, res)
              ELSE IF a.feature_size.kind = "float"
                   THEN <<a.feature_size.v[1], a.feature_size.v[1]>>
                   ELSE a.feature_size.v
    IN  IF a.size.kind # "none" /\ Len(a.size.v) # 2
        THEN Aborted("AssertionError: Sensor size should be of length 2")
        ELSE IF a.feature_size.kind = "int"
        THEN Aborted("TypeError: object of type 'int' has no len()")
        ELSE IF a.feature_size.kind = "seq" /\ Len(a.feature_size.v) # 2
        THEN Aborted("AssertionError: Feature size should be of length 2")
        ELSE IF a.feature_size.kind # "none" /\ ~(\A i \in 1 .. 2 : fs[i] > 0)
        THEN Aborted("AssertionError: Feature size should be positive")
        ELSE IF ~TripleCheck(res, fs, sz)
        THEN Aborted("AssertionError")
        ELSE [error |-> None, resolution |-> res, size |-> sz, feature_size |-> fs]

\* Lines 76-105: the validated triple, or the exception that aborts construction
MaskInitResult(a) ==
    IF Len(a.resolution) # 2
    THEN Aborted("AssertionError: Sensor resolution should be of length 2")
    ELSE IF a.size.kind = "none" /\ a.feature_size.kind = "none"
    THEN Aborted("AssertionError: Either sensor_size or feature_size should be specified")
    ELSE MaskTriple(a.resolution, a)

----------------------------------------------------------------------------
(* CodedAperture: is_prime, squarepattern, max_len_seq, create_mask *)

NoneArr == [shape |-> <<>>, data |-> <<>>]

\* int(sqrt(n)) for n >= 0
ISqrt(n) == CHOOSE k \in 0 .. n : k * k <= n /\ (k + 1) * (k + 1) > n

\* Lines 238-240
is_prime(n) ==
    IF n % 2 = 0 /\ n > 2
    THEN FALSE
    ELSE \A i \in {k \in 3 .. ISqrt(n) : k % 2 = 1} : n % i # 0

\* sympy.ntheory.quadratic_residues(p): the squares of 0 .. p // 2 modulo p
quadratic_residues(p) == {(i * i) % p : i \in 0 .. (p \div 2)}

\* Faulty variant of lines 253-260: membership tested without the offset of one
SquareCellNoOffset(q, i, j) ==
    IF j = 0 THEN (IF i >= 1 THEN 1 ELSE 0)
    ELSE IF i >= 1 /\ ~((i \in q) # (j \in q)) THEN 1 ELSE 0

\* Faulty variant of lines 253-260: the first column is left at zero
SquareCellNoColumn(q, i, j) ==
    IF j = 0 THEN 0
    ELSE IF i >= 1 /\ ~(((i - 1) \in q) # ((j - 1) \in q)) THEN 1 ELSE 0

\* Lines 253-260: entry (i, j) of A
SquareCell(q, i, j) ==
    IF j = 0 THEN (IF i >= 1 THEN 1 ELSE 0)
    ELSE IF i >= 1 /\ ~(((i - 1) \in q) # ((j - 1) \in q)) THEN 1 ELSE 0

\* Lines 251-260
squarepattern(p) ==
    IF ~is_prime(p)
    THEN [error |-> "ValueError: p is not a valid length. It must be prime.", A |-> NoneArr]
    ELSE LET q == quadratic_residues(p)
         IN  [error |-> None, A |-> Arr2(p, p, LAMBDA i, j : SquareCell(q, i, j))]

\* scipy.signal._max_len_seq._mls_taps, the entries for 2 .. 8 bits
MlsTaps == [n \in 2 .. 8 |->
              CASE n = 2 -> <<1>> [] n = 3 -> <<2>> [] n = 4 -> <<3>> [] n = 5 -> <<3>>
                [] n = 6 -> <<5>> [] n = 7 -> <<6>> [] n = 8 -> <<7, 6, 1>>]

Xor(a, b) == (a + b) % 2

RECURSIVE XorTaps(_, _, _, _, _)
\* feedback ^= state[(taps[ti] + idx) % nbits] for every tap from ti on
XorTaps(feedback, state, taps, idx, ti) ==
    IF ti > Len(taps) THEN feedback
    ELSE XorTaps(Xor(feedback, state[(taps[ti] + idx) % Len0(state)]), state, taps, idx, ti + 1)

RECURSIVE LfsrRun(_, _, _, _, _)
\* scipy's _max_len_seq_inner: the bits emitted from step i on, appended to out
LfsrRun(state, taps, idx, i, out) ==
    IF i = 0 THEN out
    ELSE LET nbits == Len0(state)
             fb == XorTaps(state[idx], state, taps, idx, 1)
         IN  LfsrRun([state EXCEPT ![idx] = fb], taps, (idx + 1) % nbits, i - 1,
                     Append(out, state[idx]))

\* 2 ** n
RECURSIVE Pow2(_)
Pow2(n) == IF n = 0 THEN 1 ELSE 2 * Pow2(n - 1)

\* scipy.signal.max_len_seq(nbits)[0]: a sequence of 2**nbits - 1 bits, state all ones
max_len_seq(nbits) ==
    LfsrRun([k \in 0 .. (nbits - 1) |-> 1], MlsTaps[nbits], 0, Pow2(nbits) - 1, <<>>)

\* Faulty variant of line 215: the bits are not mapped to -1 / +1
BipolarSeqUnmapped(nbits) ==
    LET bits == max_len_seq(nbits) IN [k \in 0 .. (Len(bits) - 1) |-> bits[k + 1]]

\* Line 215: max_len_seq(self.n_bits)[0] * 2 - 1, indexed from 0
BipolarSeq(nbits) ==
    LET bits == max_len_seq(nbits) IN [k \in 0 .. (Len(bits) - 1) |-> bits[k + 1] * 2 - 1]

\* Line 216: np.r_[seq, seq]
Doubled(s) == [k \in 0 .. (2 * Len0(s) - 1) |-> s[k % Len0(s)]]

\* lensless.utils.image.resize(img, shape=...): an (R0, C0, 1) array resampled to
\* (R, C, 1).  The entries of the result count halves, so that the fractional and
\* the out-of-range values an interpolation produces are representable: "nearest"
\* copies the nearest source entry, "linear" averages it with its right neighbour,
\* "cubic" overshoots away from its lower neighbour.
Resize(img, shp, kind) ==
    LET R0 == img.shape[1]
        C0 == img.shape[2]
        R == shp[1]
        C == shp[2]
        src(i, j) == img.data[i * C0 + j]
        si(i) == (i * R0) \div R
        sj(j) == (j * C0) \div C
        nxt(k, n) == IF k + 1 < n THEN k + 1 ELSE k
        val(i, j) ==
            CASE kind = "nearest" -> 2 * src(si(i), sj(j))
              [] kind = "linear" -> src(si(i), sj(j)) + src(si(i), nxt(sj(j), C0))
              [] kind = "cubic" -> 3 * src(si(i), sj(j)) - src(nxt(si(i), R0), sj(j))
    IN  [shape |-> <<R, C, 1>>,
         data |-> [k \in 0 .. (R * C - 1) |-> val(k \div C, k % C)]]

\* np.round of h halves: to the nearest integer, a tie to the even one
RoundHalves(h) ==
    IF h % 2 = 0 THEN h \div 2
    ELSE IF ((h - 1) \div 2) % 2 = 0 THEN (h - 1) \div 2 ELSE (h + 1) \div 2

\* Lines 226-227 on one entry, counted in halves: clip to [0, 1], round, astype(int)
ClipRound(h) == RoundHalves(Clip(h, 0, 2))

\* Line 222: np.any(self.resolution != self.mask.shape)
NeedsUpscale(res, m) == \E i \in 1 .. 2 : res[i] # m.shape[i]

\* Lines 222-227: the mask after the upscaling step
Upscaled(res, m, kind) ==
    IF NeedsUpscale(res, m)
    THEN LET up == Squeeze(Resize(NewAxis(m), <<res[1], res[2], 1>>, kind))
         IN  [shape |-> up.shape, data |-> [k \in DOMAIN up.data |-> ClipRound(up.data[k])]]
    ELSE m

\* Lines 211-213: the MURA branch
MuraBranch(n_bits) ==
    LET sp == squarepattern(4 * n_bits + 1)
        p == 4 * n_bits + 1
        m == Arr2(p - 1, p - 1, LAMBDA i, j : At(sp.A, i + 1, j + 1))
    IN  IF sp.error # None
        THEN [error |-> sp.error, mask |-> NoneArr, row |-> <<>>, col |-> <<>>,
              seq |-> <<>>, pattern |-> NoneArr]
        ELSE IF m.shape[1] = 0
        THEN [error |-> "IndexError: index 0 is out of bounds for axis 0 with size 0",
              mask |-> m, row |-> <<>>, col |-> <<>>, seq |-> <<>>, pattern |-> sp.A]
        ELSE [error |-> None, mask |-> m,
              row |-> [j \in 0 .. (p - 2) |-> 2 * At(m, 0, j) - 1],
              col |-> [i \in 0 .. (p - 2) |-> 2 * At(m, i, 0) - 1],
              seq |-> <<>>, pattern |-> sp.A]

\* Lines 215-219: the MLS branch
MlsBranch(n_bits) ==
    IF n_bits \notin DOMAIN MlsTaps
    THEN [error |-> "ValueError: nbits must be between 2 and 32 if taps is None",
          mask |-> NoneArr, row |-> <<>>, col |-> <<>>, seq |-> <<>>, pattern |-> NoneArr]
    ELSE LET s == BipolarSeq(n_bits)
             h_r == Doubled(s)
             n == Len0(h_r)
         IN  [error |-> None,
              mask |-> Arr2(n, n, LAMBDA i, j : (h_r[i] * h_r[j] + 1) \div 2),
              row |-> h_r, col |-> h_r, seq |-> s, pattern |-> NoneArr]

\* str.upper() on the method names the model draws
Upper(m) == CASE m = "mls" -> "MLS" [] m = "mura" -> "MURA" [] OTHER -> m

\* Lines 207-227: CodedAperture.create_mask; kind is the interpolation resize applies
CodedCreateMask(a, res, kind) ==
    IF Upper(a.method) \notin {"MURA", "MLS"}
    THEN [error |-> "AssertionError: Method should be either 'MLS' or 'MURA'",
          mask |-> NoneArr, row |-> <<>>, col |-> <<>>, seq |-> <<>>,
          pattern |-> NoneArr, raw_mask |-> NoneArr]
    ELSE LET b == IF Upper(a.method) = "MURA" THEN MuraBranch(a.n_bits) ELSE MlsBranch(a.n_bits)
         IN  IF b.error # None
             THEN [error |-> b.error, mask |-> b.mask, row |-> b.row, col |-> b.col,
                   seq |-> b.seq, pattern |-> b.pattern, raw_mask |-> NoneArr]
             ELSE [error |-> None, mask |-> Upscaled(res, b.mask, kind),
                   row |-> b.row, col |-> b.col, seq |-> b.seq,
                   pattern |-> b.pattern, raw_mask |-> b.mask]

----------------------------------------------------------------------------
(* Mask.compute_psf, lines 160-172 *)

\* Line 56: the default psf_wavelength, in nanometres
DefaultWavelengths == <<460, 550, 640>>

\* waveprop.rs.angular_spectrum(u_in, wv, d1, dz, bandlimit=True)[0]: a complex
\* field of the shape of u_in, each entry a pair <<re, im>>.  The propagator is
\* external; this stand-in is a fixed function of the field, the wavelength, the
\* pitch and the distance, with entries of both signs.
angular_spectrum(u_in, wv, d1, dz) ==
    LET R == u_in.shape[1]
        C == u_in.shape[2]
        re(i, j) == At(u_in, i, j) * (wv % 7) - 2 + i
        im(i, j) == At(u_in, i, (j + 1) % C) * dz - d1[1] - j
    IN  [shape |-> u_in.shape,
         data |-> [k \in 0 .. (R * C - 1) |-> <<re(k \div C, k % C), im(k \div C, k % C)>>]]

\* Line 160: np.zeros(tuple(self.resolution) + (len(self.psf_wavelength),))
ZeroSlices(res, n) ==
    [i \in 1 .. n |-> [shape |-> res, data |-> [k \in 0 .. (res[1] * res[2] - 1) |-> <<0, 0>>]]]

\* Faulty variant of line 172: the real part is kept instead of the squared magnitude
IntensityRealPart(z) == z[1]

\* Line 172 on one entry: np.abs(z) ** 2
Intensity(z) == z[1] * z[1] + z[2] * z[2]

\* Line 172: the intensity PSF, slice by slice
IntensityOf(buf) ==
    [i \in 1 .. Len(buf) |->
        [shape |-> buf[i].shape, data |-> [k \in DOMAIN buf[i].data |-> Intensity(buf[i].data[k])]]]

Event(op, u, wv) == [op |-> op, u_in |-> u, wv |-> wv]

----------------------------------------------------------------------------
(* The constructor, step by step *)

\* Lines 76-105: the arguments are validated and the triple is stored
MaskInit ==
    /\ pc = "start"
    /\ LET r == MaskInitResult(args)
       IN  /\ pc' = IF r.error = None THEN "create_mask" ELSE "aborted"
           /\ error' = r.error
           /\ resolution' = r.resolution
           /\ size' = r.size
           /\ feature_size' = r.feature_size
    /\ UNCHANGED <<args, mask, row, col, seq, pattern, raw_mask, psf_buf, psf_i, psf,
                   calls, sim, placeVars, extVars>>

\* Lines 108-110: self.create_mask() of the CodedAperture
CreateMask ==
    /\ pc = "create_mask"
    /\ \E kind \in {"nearest", "linear", "cubic"} :
         LET r == CodedCreateMask(args, resolution, kind)
         IN  /\ pc' = IF r.error = None THEN "compute_psf" ELSE "failed"
             /\ error' = r.error
             /\ mask' = r.mask
             /\ row' = r.row
             /\ col' = r.col
             /\ seq' = r.seq
             /\ pattern' = r.pattern
             /\ raw_mask' = r.raw_mask
    /\ calls' = Append(calls, Event("create_mask", NoneArr, 0))
    /\ UNCHANGED <<args, resolution, size, feature_size, psf_buf, psf_i, psf, sim, placeVars, extVars>>

\* Lines 113-115 and 160: compute_psf is entered and its buffer allocated
ComputePsfBegin ==
    /\ pc = "compute_psf"
    /\ pc' = "psf_loop"
    /\ psf_buf' = ZeroSlices(resolution, Len(args.psf_wavelength))
    /\ psf_i' = 0
    /\ calls' = Append(calls, Event("compute_psf", NoneArr, 0))
    /\ UNCHANGED <<args, resolution, size, feature_size, mask, row, col, seq, pattern,
                   raw_mask, psf, error, sim, placeVars, extVars>>

\* Lines 161-169: one iteration of the loop over the wavelengths
PropagateStep ==
    /\ pc = "psf_loop"
    /\ psf_i < Len(args.psf_wavelength)
    /\ LET wv == args.psf_wavelength[psf_i + 1]
       IN  /\ calls' = Append(calls, Event("angular_spectrum", mask, wv))
           /\ IF Len(mask.shape) # 2
              THEN /\ pc' = "failed"
                   /\ error' = "ValueError: not enough values to unpack"
                   /\ UNCHANGED <<psf_buf, psf_i>>
              ELSE LET out == angular_spectrum(mask, wv, feature_size, args.distance_sensor)
                   IN  IF out.shape # resolution
                       THEN /\ pc' = "failed"
                            /\ error' = "ValueError: could not broadcast input array"
                            /\ UNCHANGED <<psf_buf, psf_i>>
                       ELSE /\ psf_buf' = [psf_buf EXCEPT ![psf_i + 1] = out]
                            /\ psf_i' = psf_i + 1
                            /\ UNCHANGED <<pc, error>>
    /\ UNCHANGED <<args, resolution, size, feature_size, mask, row, col, seq, pattern,
                   raw_mask, psf, sim, placeVars, extVars>>

\* Line 172: the loop is over, the intensity is stored and the constructor returns
ComputePsfEnd ==
    /\ pc = "psf_loop"
    /\ psf_i = Len(args.psf_wavelength)
    /\ psf' = IntensityOf(psf_buf)
    /\ pc' = "done"
    /\ UNCHANGED <<args, resolution, size, feature_size, mask, row, col, seq, pattern,
                   raw_mask, psf_buf, psf_i, calls, error, sim, placeVars, extVars>>

----------------------------------------------------------------------------
(* CodedAperture.get_conv_matrices and simulate, lines 282-323 *)

RECURSIVE SumSeq(_)
SumSeq(s) == IF Len(s) = 0 THEN 0 ELSE s[1] + SumSeq(Tail(s))

\* np.resize(v, n) of a one-dimensional v: v repeated cyclically, cut to n entries
NpResize(v, n) == [k \in 0 .. (n - 1) |-> v[k % Len0(v)]]

\* Faulty variant of scipy.linalg.circulant: the transposed matrix
CirculantTransposed(c) == Arr2(Len0(c), Len0(c), LAMBDA i, j : c[(j - i) % Len0(c)])

\* scipy.linalg.circulant(c): entry (i, j) is c[(i - j) mod n]
Circulant(c) == Arr2(Len0(c), Len0(c), LAMBDA i, j : c[(i - j) % Len0(c)])

\* m[:, :n]
FirstColumns(m, n) ==
    LET w == IF n < m.shape[2] THEN n ELSE m.shape[2]
    IN  Arr2(m.shape[1], w, LAMBDA i, j : At(m, i, j))

\* Lines 282-283
get_conv_matrices(c, r, res, img_shape) ==
    [P |-> FirstColumns(Circulant(NpResize(c, res[1])), img_shape[1]),
     Q |-> FirstColumns(Circulant(NpResize(r, res[2])), img_shape[2])]

Transpose(m) == Arr2(m.shape[2], m.shape[1], LAMBDA i, j : At(m, j, i))

\* The matrix product of two two-dimensional arrays of matching inner dimension
MatMul(a, b) ==
    Arr2(a.shape[1], b.shape[2],
         LAMBDA i, j : SumSeq([k \in 1 .. a.shape[2] |-> At(a, i, k - 1) * At(b, k - 1, j)]))

\* obj[:, :, c] of an (H, W, C) array
Channel(obj, c) ==
    Arr2(obj.shape[1], obj.shape[2],
         LAMBDA h, w : obj.data[(h * obj.shape[2] + w) * obj.shape[3] + c])

\* np.dstack of the per-channel products, line 314 (line 310-312 for tensors)
Convolve(P, Q, obj) ==
    LET n == obj.shape[3]
        ch == [c \in 0 .. (n - 1) |-> MatMul(MatMul(P, Channel(obj, c)), Transpose(Q))]
        R == P.shape[1]
        C == Q.shape[1]
    IN  [shape |-> <<R, C, n>>,
         data |-> [k \in 0 .. (R * C * n - 1) |-> At(ch[k % n], (k \div n) \div C, (k \div n) % C)]]

\* waveprop.noise.add_shot_noise(meas, snr_db): external; the stand-in shifts
\* every entry by the drawn amount
add_shot_noise(meas, snr_db, draw) ==
    [shape |-> meas.shape, data |-> [k \in DOMAIN meas.data |-> meas.data[k] + draw]]

\* snr_db is a sequence: empty for None, else the one value given
NoSim == [called |-> FALSE, obj |-> NoneArr, backend |-> "numpy", snr_db |-> <<>>,
          draw |-> 0, P |-> NoneArr, Q |-> NoneArr, meas |-> NoneArr,
          meas_backend |-> "numpy", noise_calls |-> 0, error |-> None]

\* Lines 299-323: simulate(obj, snr_db) on a constructed mask
SimulateResult(c, r, res, obj, backend, snr, draw) ==
    LET base == [NoSim EXCEPT !.called = TRUE, !.obj = obj, !.backend = backend,
                              !.snr_db = snr, !.draw = draw, !.meas_backend = backend]
    IN  IF Len(obj.shape) # 3
        THEN [base EXCEPT !.error =
                 "AssertionError: Object should be a 3D array (HxWxC) even if grayscale."]
        ELSE LET pq == get_conv_matrices(c, r, res, obj.shape)
                 withPQ == [base EXCEPT !.P = pq.P, !.Q = pq.Q]
             IN  IF pq.P.shape[2] # obj.shape[1] \/ pq.Q.shape[2] # obj.shape[2]
                 THEN [withPQ EXCEPT !.error = "ValueError: shapes not aligned"]
                 ELSE LET conv == Convolve(pq.P, pq.Q, obj)
                      IN  IF snr = <<>>
                          THEN [withPQ EXCEPT !.meas = conv]
                          ELSE [withPQ EXCEPT !.meas = add_shot_noise(conv, snr[1], draw),
                                              !.noise_calls = 1]

----------------------------------------------------------------------------
(* Initial states and specifications of the CodedAperture construction *)

ResPairs == {<<a, b>> : a \in 1 .. MaxRes, b \in 1 .. MaxRes}

WavelengthLists == {DefaultWavelengths, <<550>>, <<640, 460>>, <<>>}

NoPArgs == [width |-> 0, height |-> 0, radius |-> <<>>, max_attempts |-> 0]

PlaceIdle ==
    /\ ppc = "idle"
    /\ p_args = NoPArgs
    /\ radius_sorted = <<>>
    /\ placed_circles = <<>>
    /\ r_idx = 0
    /\ attempt = 0
    /\ log = <<>>
    /\ p_result = [status |-> "none", circles |-> <<>>, radius |-> <<>>]
    /\ trials = 0

\* No mask has been constructed yet; the generator is in its start-up state
ProcIdle ==
    /\ rng = Unseeded
    /\ script = <<>>
    /\ built = <<>>

\* phase_retrieval is not running
PrIdle ==
    /\ pr_pc = "idle"
    /\ pr_args = [target_psf |-> NoneArr, dz |-> 0, n_iter |-> 0]
    /\ M_p = NoneArr
    /\ M_phi = NoneArr
    /\ pr_round = 0
    /\ pr_calls = <<>>
    /\ pr_result = [status |-> "none", phi |-> NoneArr, height_map |-> NoneArr]

\* benchmark is not running
BenchIdle ==
    /\ b_pc = "idle"
    /\ b_args = [batchsize |-> 0, outputs |-> <<>>, channels |-> 0, save_idx |-> NoneArg,
                 metrics |-> <<>>]
    /\ b_idx = 0
    /\ batch_no = 0
    /\ prediction = <<>>
    /\ metrics_values = <<>>
    /\ b_log = <<>>
    /\ b_result = [status |-> "none", values |-> <<>>, over |-> 0]

\* The state of an instance on which __init__ has just been entered
Fresh(a) ==
    /\ pc = "start"
    /\ args = a
    /\ resolution = <<>>
    /\ size = <<>>
    /\ feature_size = <<>>
    /\ mask = NoneArr
    /\ row = <<>>
    /\ col = <<>>
    /\ seq = <<>>
    /\ pattern = NoneArr
    /\ raw_mask = NoneArr
    /\ psf_buf = <<>>
    /\ psf_i = 0
    /\ psf = <<>>
    /\ calls = <<>>
    /\ error = None
    /\ sim = NoSim

\* Every pattern argument, with the pitch given and the size derived from it
PatternArgs ==
    [resolution : ResPairs, size : {NoneArg}, feature_size : {FloatArg(1)},
     method : {"MURA", "MLS", "mls", "FZA"}, n_bits : 0 .. MaxNBits,
     psf_wavelength : WavelengthLists, distance_sensor : {4}]

Init == (\E a \in PatternArgs : Fresh(a)) /\ PlaceIdle /\ ProcIdle /\ PrIdle /\ BenchIdle

Next == MaskInit \/ CreateMask \/ ComputePsfBegin \/ PropagateStep \/ ComputePsfEnd

Spec == Init /\ [][Next]_vars

\* Every way of giving the triple, for one fixed pattern
GeometryArgs ==
    [resolution : ResPairs \cup {<<a>> : a \in 1 .. MaxRes},
     size : {NoneArg} \cup {SeqArg(<<a, b>>) : a \in 1 .. MaxSize, b \in 1 .. MaxSize}
                      \cup {SeqArg(<<a>>) : a \in 1 .. MaxSize},
     feature_size : {NoneArg} \cup {FloatArg(f) : f \in 0 .. MaxFeat}
                              \cup {IntArg(f) : f \in 0 .. MaxFeat}
                              \cup {SeqArg(<<f, g>>) : f \in 0 .. MaxFeat, g \in 0 .. MaxFeat},
     method : {"MURA"}, n_bits : {1},
     psf_wavelength : {DefaultWavelengths}, distance_sensor : {4}]

InitGeom == (\E a \in GeometryArgs : Fresh(a)) /\ PlaceIdle /\ ProcIdle /\ PrIdle /\ BenchIdle

SpecGeom == InitGeom /\ [][Next]_vars

----------------------------------------------------------------------------
(* Properties of the constructor and of the CodedAperture patterns *)

\* create_mask has returned normally
MaskCreated == pc \in {"compute_psf", "psf_loop", "done"}

\* The feature_size argument as a pair, a scalar being broadcast
GivenFeature == IF Len(args.feature_size.v) = 1
                THEN <<args.feature_size.v[1], args.feature_size.v[1]>>
                ELSE args.feature_size.v

\* Both size and feature_size are given, well formed, and break the inequality
GivenPairViolates ==
    /\ Len(args.resolution) = 2
    /\ args.size.kind = "seq" /\ Len(args.size.v) = 2
    /\ args.feature_size.kind \in {"float", "seq"}
    /\ \E i \in 1 .. 2 : args.resolution[i] * GivenFeature[i] > args.size.v[i]

NeitherGiven == args.size.kind = "none" /\ args.feature_size.kind = "none"

\* C1: once the constructor is past its validation, resolution * feature_size <= size
\* holds elementwise; a size that was not given is resolution * feature_size, a
\* feature_size that was not given is size / resolution (to the nearest unit); and a
\* given pair that breaks the inequality, or giving neither, aborts construction
\* before create_mask is called.
C1_TripleInvariant ==
    /\ pc \notin {"start", "aborted"} =>
         /\ resolution = args.resolution
         /\ \A i \in 1 .. 2 : resolution[i] * feature_size[i] <= size[i]
         /\ args.size.kind = "none" =>
              \A i \in 1 .. 2 : size[i] = resolution[i] * GivenFeature[i]
         /\ args.size.kind # "none" => size = args.size.v
         /\ args.feature_size.kind = "none" =>
              \A i \in 1 .. 2 :
                 /\ 2 * resolution[i] * feature_size[i] <= 2 * size[i] + resolution[i]
                 /\ 2 * size[i] + resolution[i] < 2 * resolution[i] * (feature_size[i] + 1)
         /\ args.feature_size.kind # "none" => feature_size = GivenFeature
    /\ (GivenPairViolates \/ NeitherGiven) => pc \in {"start", "aborted"}
    /\ pc = "aborted" => calls = <<>> /\ mask = NoneArr

\* C1 witness: a mask built from resolution and size alone, its pitch derived
C1_Witness ==
    /\ pc = "done"
    /\ args.feature_size.kind = "none"
    /\ resolution[1] * feature_size[1] < size[1]

\* The events of calls whose op is the given one
EventsOf(op) == {k \in 1 .. Len(calls) : calls[k].op = op}

\* C2: compute_psf runs once per construction, after create_mask has filled the
\* field, and propagates that field once per configured wavelength in list order;
\* on return psf has one slice of the shape of resolution per wavelength, every
\* entry non-negative and equal to the squared magnitude of the propagated field.
C2_PsfOncePerWavelength ==
    /\ Cardinality(EventsOf("compute_psf")) <= 1
    /\ Cardinality(EventsOf("create_mask")) <= 1
    /\ \A k \in EventsOf("compute_psf") : k = 2 /\ calls[1].op = "create_mask" /\ mask # NoneArr
    /\ \A k \in EventsOf("angular_spectrum") :
         /\ k >= 3
         /\ calls[k].u_in = mask
         /\ calls[k].wv = args.psf_wavelength[k - 2]
    /\ pc = "done" =>
         /\ Len(calls) = 2 + Len(args.psf_wavelength)
         /\ EventsOf("angular_spectrum") = 3 .. Len(calls)
         /\ Len(psf) = Len(args.psf_wavelength)
         /\ \A i \in 1 .. Len(psf) :
              /\ psf[i].shape = resolution
              /\ DOMAIN psf[i].data = 0 .. (resolution[1] * resolution[2] - 1)
              /\ \A k \in DOMAIN psf[i].data :
                   LET z == angular_spectrum(mask, args.psf_wavelength[i], feature_size,
                                             args.distance_sensor).data[k]
                   IN  /\ psf[i].data[k] >= 0
                       /\ psf[i].data[k] = z[1] * z[1] + z[2] * z[2]

\* C2 witness: a construction that returned after three propagations of an upscaled field
C2_Witness ==
    /\ pc = "done"
    /\ Len(psf) = 3
    /\ raw_mask # mask

\* n is a prime number
IsPrimeNumber(n) == n > 1 /\ \A d \in 2 .. (n - 1) : n % d # 0

IsMura == Upper(args.method) = "MURA"

IsMls == Upper(args.method) = "MLS"

\* C3: a MURA construction gets past squarepattern only if p = 4 * n_bits + 1 is
\* prime, every other p ends in the invalid-length error, and is_prime(p) is true
\* exactly when p is prime.
C3_NonPrimeRejected ==
    (IsMura /\ Len(calls) >= 1) =>
        LET p == 4 * args.n_bits + 1
        IN  /\ is_prime(p) <=> IsPrimeNumber(p)
            /\ ~IsPrimeNumber(p) =>
                 error = "ValueError: p is not a valid length. It must be prime."
            /\ MaskCreated => IsPrimeNumber(p)

\* x is a square modulo p
IsResidue(x, p) == \E k \in 0 .. (p - 1) : (k * k) % p = x

\* The MURA branch has produced its pattern for a prime p
MuraBuilt == IsMura /\ raw_mask # NoneArr

\* Every cell (i, j) of the pattern with i, j >= 1 is the XNOR of the residue
\* memberships of i - 1 and j - 1
XnorRule ==
    LET p == 4 * args.n_bits + 1
    IN  /\ pattern.shape = <<p, p>>
        /\ \A i \in 1 .. (p - 1) : \A j \in 1 .. (p - 1) :
              At(pattern, i, j) = IF IsResidue(i - 1, p) <=> IsResidue(j - 1, p) THEN 1 ELSE 0

\* C4 as stated: the XNOR rule, and after the trim the first row of the mask is
\* all 0 and its first column all 1.
C4_TrimmedBorder ==
    MuraBuilt =>
        /\ XnorRule
        /\ \A j \in 0 .. (raw_mask.shape[2] - 1) : At(raw_mask, 0, j) = 0
        /\ \A i \in 0 .. (raw_mask.shape[1] - 1) : At(raw_mask, i, 0) = 1

\* C4 as amended: the XNOR rule; the first row is all 0 and the first column is 1
\* below the corner in the untrimmed p x p pattern; the mask is that pattern
\* without its first row and column, so its first row and its first column are the
\* indicator of the residues modulo p.
C4_PatternRule ==
    MuraBuilt =>
        LET p == 4 * args.n_bits + 1
        IN  /\ XnorRule
            /\ \A j \in 0 .. (p - 1) : At(pattern, 0, j) = 0
            /\ \A i \in 1 .. (p - 1) : At(pattern, i, 0) = 1
            /\ raw_mask.shape = <<p - 1, p - 1>>
            /\ \A a \in 0 .. (p - 2) : \A b \in 0 .. (p - 2) :
                  At(raw_mask, a, b) = At(pattern, a + 1, b + 1)
            /\ \A b \in 0 .. (p - 2) :
                  At(raw_mask, 0, b) = IF IsResidue(b, p) THEN 1 ELSE 0
            /\ \A a \in 0 .. (p - 2) :
                  At(raw_mask, a, 0) = IF IsResidue(a, p) THEN 1 ELSE 0

\* C4 witness: a finished MURA mask for p = 13
C4_Witness == MuraBuilt /\ pc = "done" /\ args.n_bits = 3

\* The number of entries of an array that equal 1
Ones(a) == Cardinality({k \in DOMAIN a.data : a.data[k] = 1})

\* C5: for a prime p = 4 * n_bits + 1 the square pattern squarepattern returns has
\* exactly (p^2 - 1) / 2 ones.
C5_PatternDensity ==
    (IsMura /\ pattern # NoneArr /\ IsPrimeNumber(4 * args.n_bits + 1)) =>
        LET p == 4 * args.n_bits + 1
        IN  /\ pattern.shape = <<p, p>>
            /\ 2 * Ones(pattern) = p * p - 1

\* C5 witness: the pattern generated for p = 17
C5_Witness == IsMura /\ pattern # NoneArr /\ args.n_bits = 4 /\ MaskCreated

\* The MLS branch has produced its sequence
MlsBuilt == IsMls /\ raw_mask # NoneArr

\* The periodic autocorrelation of s at the given lag
RECURSIVE CorrSum(_, _, _)
CorrSum(s, lag, k) ==
    IF k < 0 THEN 0
    ELSE s[k] * s[(k + lag) % Len0(s)] + CorrSum(s, lag, k - 1)

Autocorrelation(s, lag) == CorrSum(s, lag, Len0(s) - 1)

\* C6: the MLS sequence generated before doubling has length 2^n_bits - 1, values
\* in {-1, +1}, and a periodic autocorrelation of 2^n_bits - 1 at lag 0 and of one
\* and the same lower value at every other lag.
C6_MlsSequence ==
    MlsBuilt =>
        LET L == Pow2(args.n_bits) - 1
        IN  /\ DOMAIN seq = 0 .. (L - 1)
            /\ \A k \in DOMAIN seq : seq[k] \in {-1, 1}
            /\ Autocorrelation(seq, 0) = L
            /\ \A lag \in 1 .. (L - 1) :
                 /\ Autocorrelation(seq, lag) < L
                 /\ Autocorrelation(seq, lag) = Autocorrelation(seq, 1)

\* C6 witness: a finished MLS mask for n_bits = 4, a sequence of 15 values
C6_Witness == MlsBuilt /\ pc = "done" /\ args.n_bits = 4 /\ Len0(seq) = 15

\* C7: for MLS the raw pattern before upscaling is square of side 2^n_bits - 1 and
\* row and col have that length.
C7_MlsRawSide ==
    MlsBuilt =>
        LET L == Pow2(args.n_bits) - 1
        IN  /\ raw_mask.shape = <<L, L>>
            /\ Len0(row) = L
            /\ Len0(col) = L

\* C8: once create_mask has returned, the field has the shape of resolution and
\* every entry is 0 or 1; and the psf of a finished construction with the default
\* wavelengths has three slices of the shape of resolution.
C8_BinaryFieldOfResolution ==
    /\ MaskCreated =>
         /\ mask.shape = resolution
         /\ \A k \in DOMAIN mask.data : mask.data[k] \in {0, 1}
    /\ (pc = "done" /\ args.psf_wavelength = DefaultWavelengths) =>
         /\ Len(psf) = 3
         /\ \A i \in 1 .. 3 : psf[i].shape = resolution

----------------------------------------------------------------------------
(* simulate() called on a constructed CodedAperture *)

\* An (H, W, C) object: an impulse in the last row, or a ramp with entries of both signs
Obj3(H, W, C, kind) ==
    [shape |-> <<H, W, C>>,
     data |-> [k \in 0 .. (H * W * C - 1) |->
                 LET c == k % C
                     w == (k \div C) % W
                     h == (k \div C) \div W
                 IN  IF kind = "impulse"
                     THEN (IF h = H - 1 /\ w = 0 THEN 1 ELSE 0)
                     ELSE h + 2 * w + 3 * c - 2]]

\* An (H, W) object, without the channel axis
Obj2(H, W) == [shape |-> <<H, W>>, data |-> [k \in 0 .. (H * W - 1) |-> 1]]

Objects ==
    {Obj3(H, W, C, kind) : H \in 1 .. MaxObj, W \in 1 .. MaxObj, C \in 1 .. 2,
                           kind \in {"impulse", "ramp"}}
    \cup {Obj2(H, H) : H \in 1 .. MaxObj}

\* Lines 287-323: one call of simulate.  simulate reads the instance and changes
\* nothing of it, so every call is covered by the first one on an instance.
Simulate ==
    /\ pc = "done"
    /\ ~sim.called
    /\ \E obj \in Objects, backend \in {"numpy", "torch"}, snr \in {<<>>, <<20>>} :
         \E draw \in (IF snr = <<>> THEN {0} ELSE {-1, 1}) :
            sim' = SimulateResult(col, row, resolution, obj, backend, snr, draw)
    /\ UNCHANGED <<maskVars, placeVars, extVars>>

SimArgs ==
    [resolution : {<<a, b>> : a \in 1 .. MaxSimRes, b \in 1 .. MaxSimRes},
     size : {NoneArg}, feature_size : {FloatArg(1)},
     method : {"MURA", "MLS"}, n_bits : {1, 2},
     psf_wavelength : {<<550>>}, distance_sensor : {4}]

InitSim == (\E a \in SimArgs : Fresh(a)) /\ PlaceIdle /\ ProcIdle /\ PrIdle /\ BenchIdle

NextSim == Next \/ Simulate

SpecSim == InitSim /\ [][NextSim]_vars

\* The signature v repeated cyclically or cut to n entries, read at index k mod n
Wrapped(v, n, k) == v[(k % n) % Len0(v)]

\* Entry (i, j, k) of the separable measurement, written out as a double sum
ExpectedEntry(obj, i, j, k) ==
    LET H == obj.shape[1]
        W == obj.shape[2]
        C == obj.shape[3]
    IN  SumSeq([a \in 1 .. H |->
          SumSeq([b \in 1 .. W |->
              Wrapped(col, resolution[1], i - (a - 1))
                * obj.data[((a - 1) * W + (b - 1)) * C + k]
                * Wrapped(row, resolution[2], j - (b - 1))])])

\* The entries of P and Q are those of the circulant matrices of col and row
ConvMatricesAreCirculant ==
    /\ \A i \in 0 .. (sim.P.shape[1] - 1) : \A j \in 0 .. (sim.P.shape[2] - 1) :
          At(sim.P, i, j) = Wrapped(col, resolution[1], i - j)
    /\ \A i \in 0 .. (sim.Q.shape[1] - 1) : \A j \in 0 .. (sim.Q.shape[2] - 1) :
          At(sim.Q, i, j) = Wrapped(row, resolution[2], i - j)

\* The measurement is P * obj[:, :, k] * Q^T for every channel, with the noise
\* model applied once after it when snr_db is given and not at all when it is None
MeasurementIsSeparable ==
    /\ sim.error = None
    /\ sim.meas.shape = <<resolution[1], resolution[2], sim.obj.shape[3]>>
    /\ sim.noise_calls = IF sim.snr_db = <<>> THEN 0 ELSE 1
    /\ \A i \in 0 .. (resolution[1] - 1) : \A j \in 0 .. (resolution[2] - 1) :
         \A k \in 0 .. (sim.obj.shape[3] - 1) :
            sim.meas.data[(i * resolution[2] + j) * sim.obj.shape[3] + k]
              = ExpectedEntry(sim.obj, i, j, k) + (IF sim.snr_db = <<>> THEN 0 ELSE sim.draw)

\* An object that is not three-dimensional is rejected
Non3DRejected ==
    (sim.called /\ Len(sim.obj.shape) # 3) =>
        sim.error # None /\ sim.meas = NoneArr /\ sim.noise_calls = 0

\* C9 as stated: for every (H, W, C) object P has shape (resolution[0], H) and Q
\* has shape (resolution[1], W), their entries are those of the circulant matrices
\* of col and row, and simulate returns P * obj * Q^T per channel with the noise
\* applied once, or not at all when snr_db is None; any other object is rejected.
C9_ConvMatricesFullWidth ==
    /\ Non3DRejected
    /\ (sim.called /\ Len(sim.obj.shape) = 3) =>
         /\ sim.P.shape = <<resolution[1], sim.obj.shape[1]>>
         /\ sim.Q.shape = <<resolution[2], sim.obj.shape[2]>>
         /\ ConvMatricesAreCirculant
         /\ MeasurementIsSeparable

\* C9 as amended: P has shape (resolution[0], min(H, resolution[0])) and Q has
\* shape (resolution[1], min(W, resolution[1])); when H <= resolution[0] and
\* W <= resolution[1] simulate returns P * obj * Q^T per channel with the noise
\* applied once, or not at all when snr_db is None; when the object is larger than
\* the resolution along an axis the product fails and nothing is returned.
C9_ConvMatricesTruncated ==
    /\ Non3DRejected
    /\ (sim.called /\ Len(sim.obj.shape) = 3) =>
         LET H == sim.obj.shape[1]
             W == sim.obj.shape[2]
         IN  /\ sim.P.shape = <<resolution[1], IF H < resolution[1] THEN H ELSE resolution[1]>>
             /\ sim.Q.shape = <<resolution[2], IF W < resolution[2] THEN W ELSE resolution[2]>>
             /\ ConvMatricesAreCirculant
             /\ IF H <= resolution[1] /\ W <= resolution[2]
                THEN MeasurementIsSeparable
                ELSE sim.error # None /\ sim.meas = NoneArr /\ sim.noise_calls = 0

\* C9 witness: a noisy measurement of a two-channel object smaller than a mask
\* whose col is repeated cyclically to reach the resolution
C9_Witness ==
    /\ sim.called
    /\ sim.error = None
    /\ sim.noise_calls = 1
    /\ sim.obj.shape = <<3, 2, 2>>
    /\ resolution[1] > Len0(col)

----------------------------------------------------------------------------
(* MultiLensArray.does_circle_overlap and place_spheres_on_plane, lines 382-416 *)

\* A circle is a triple <<x, y, r>>

\* Faulty variant of lines 385-388: only the circle placed last is compared
OverlapsLastOnly(circles, x, y, r) ==
    /\ Len(circles) > 0
    /\ LET c == circles[Len(circles)]
       IN  (x - c[1]) * (x - c[1]) + (y - c[2]) * (y - c[2]) < (r + c[3]) * (r + c[3])

\* Lines 385-388: np.sqrt((x - cx)**2 + (y - cy)**2) < r + cr for some circle of the
\* list; with radii that are not negative the comparison is that of the squares
does_circle_overlap(circles, x, y, r) ==
    \E k \in 1 .. Len(circles) :
        LET c == circles[k]
        IN  (x - c[1]) * (x - c[1]) + (y - c[2]) * (y - c[2]) < (r + c[3]) * (r + c[3])

RECURSIVE InsertDesc(_, _)
InsertDesc(s, v) ==
    IF Len(s) = 0 THEN <<v>>
    ELSE IF v >= s[1] THEN <<v>> \o s
    ELSE <<s[1]>> \o InsertDesc(Tail(s), v)

RECURSIVE SortedDesc(_)
\* Line 394: sorted(radius, reverse=True)
SortedDesc(s) == IF Len(s) = 0 THEN <<>> ELSE InsertDesc(SortedDesc(Tail(s)), s[1])

\* np.random.uniform(low, high): a value between the two ends, whichever is larger
Uniform(low, high) == IF low <= high THEN low .. high ELSE high .. low

\* Lines 392-394: the call is entered and the radii are sorted
PlaceBegin ==
    /\ ppc = "call"
    /\ ppc' = "loop"
    /\ radius_sorted' = SortedDesc(p_args.radius)
    /\ placed_circles' = <<>>
    /\ r_idx' = 1
    /\ attempt' = 0
    /\ trials' = 0
    /\ UNCHANGED <<p_args, log, p_result, maskVars, sim, extVars>>

\* Lines 398-407: one attempt for the current radius
TryCandidate ==
    /\ ppc = "loop"
    /\ r_idx <= Len(radius_sorted)
    /\ attempt < p_args.max_attempts
    /\ LET r == radius_sorted[r_idx]
       IN  \E x \in Uniform(r, p_args.width - r), y \in Uniform(r, p_args.height - r) :
              /\ trials' = trials + 1
              /\ IF ~does_circle_overlap(placed_circles, x, y, r)
                 THEN /\ placed_circles' = Append(placed_circles, <<x, y, r>>)
                      /\ log' = Append(log, <<"Placed circle", r, x, y>>)
                      /\ r_idx' = r_idx + 1
                      /\ attempt' = 0
                 ELSE /\ attempt' = attempt + 1
                      /\ UNCHANGED <<placed_circles, log, r_idx>>
    /\ UNCHANGED <<ppc, p_args, radius_sorted, p_result, maskVars, sim, extVars>>

\* Lines 409-411: every attempt for the current radius overlapped
GiveUp ==
    /\ ppc = "loop"
    /\ r_idx <= Len(radius_sorted)
    /\ attempt = p_args.max_attempts
    /\ log' = Append(log, <<"Failed to place circle", radius_sorted[r_idx], 0, 0>>)
    /\ r_idx' = r_idx + 1
    /\ attempt' = 0
    /\ UNCHANGED <<ppc, p_args, radius_sorted, placed_circles, p_result, trials,
                   maskVars, sim, extVars>>

\* Lines 413-416: the placed circles are split into centers and radii; slicing the
\* array made of an empty list raises IndexError
PlaceReturn ==
    /\ ppc = "loop"
    /\ r_idx > Len(radius_sorted)
    /\ ppc' = "done"
    /\ p_result' =
         IF Len(placed_circles) = 0
         THEN [status |-> "IndexError", circles |-> <<>>, radius |-> <<>>]
         ELSE [status |-> "returned",
               circles |-> [k \in 1 .. Len(placed_circles) |->
                               <<placed_circles[k][1], placed_circles[k][2]>>],
               radius |-> [k \in 1 .. Len(placed_circles) |-> placed_circles[k][3]]]
    /\ UNCHANGED <<p_args, radius_sorted, placed_circles, r_idx, attempt, log, trials,
                   maskVars, sim, extVars>>

RECURSIVE SeqsUpTo(_, _)
\* The sequences over S of length at most n
SeqsUpTo(S, n) ==
    IF n = 0 THEN {<<>>}
    ELSE LET shorter == SeqsUpTo(S, n - 1)
         IN  shorter \cup {Append(s, v) : s \in shorter, v \in S}

PlaceArgs ==
    [width : 1 .. MaxPlane, height : 1 .. MaxPlane,
     radius : SeqsUpTo(1 .. MaxRadius, MaxLenses), max_attempts : 0 .. MaxAttempts]

\* No constructor is running: place_spheres_on_plane is looked at on its own
NoArgs == [resolution |-> <<>>, size |-> NoneArg, feature_size |-> NoneArg, method |-> "",
           n_bits |-> 0, psf_wavelength |-> <<>>, distance_sensor |-> 0]

InitPlace ==
    /\ Fresh(NoArgs)
    /\ ppc = "call"
    /\ p_args \in PlaceArgs
    /\ radius_sorted = <<>>
    /\ placed_circles = <<>>
    /\ r_idx = 0
    /\ attempt = 0
    /\ log = <<>>
    /\ p_result = [status |-> "none", circles |-> <<>>, radius |-> <<>>]
    /\ trials = 0
    /\ ProcIdle /\ PrIdle /\ BenchIdle

NextPlace == PlaceBegin \/ TryCandidate \/ GiveUp \/ PlaceReturn

SpecPlace == InitPlace /\ [][NextPlace]_vars

\* The circles of the list are pairwise disjoint or tangent: the squared distance
\* of two centers is at least the square of the sum of the radii
PairwiseApart(cs) ==
    \A i \in 1 .. Len(cs) : \A j \in 1 .. Len(cs) :
        i # j =>
            (cs[i][1] - cs[j][1]) * (cs[i][1] - cs[j][1])
              + (cs[i][2] - cs[j][2]) * (cs[i][2] - cs[j][2])
              >= (cs[i][3] + cs[j][3]) * (cs[i][3] + cs[j][3])

\* C10: after every acceptance step and in the output of place_spheres_on_plane,
\* any two distinct placed lenses have centers at least the sum of their radii apart.
C10_PlacedCirclesApart ==
    /\ PairwiseApart(placed_circles)
    /\ p_result.status = "returned" =>
         /\ Len(p_result.circles) = Len(p_result.radius)
         /\ PairwiseApart([k \in 1 .. Len(p_result.circles) |->
                             <<p_result.circles[k][1], p_result.circles[k][2],
                               p_result.radius[k]>>])

\* C10 witness: an output of two lenses for three radii, one lens given up after
\* all of its candidates overlapped
C10_Witness ==
    /\ p_result.status = "returned"
    /\ Len(p_result.radius) = 2
    /\ Len(p_args.radius) = 3
    /\ \E k \in 1 .. Len(log) : log[k][1] = "Failed to place circle"

\* C12: the loop draws at most N * max_attempts candidates for N input radii, and when
\* it is over place_spheres_on_plane returns the accepted lenses, at most N of them
\* and possibly none, instead of failing.
C12_BoundedAndReturnsSubset ==
    /\ trials <= Len(p_args.radius) * p_args.max_attempts
    /\ ppc = "done" =>
         /\ p_result.status = "returned"
         /\ Len(p_result.radius) <= Len(p_args.radius)

\* The number of entries of the sequence s that equal v
Count(s, v) == Cardinality({k \in 1 .. Len(s) : s[k] = v})

\* The radii of the accepted lenses are listed in non-increasing order and are a
\* sub-multiset of the input radii
AcceptedInOrder ==
    /\ \A k \in 1 .. (Len(placed_circles) - 1) :
          placed_circles[k][3] >= placed_circles[k + 1][3]
    /\ \A v \in 1 .. MaxRadius :
          Count([k \in 1 .. Len(placed_circles) |-> placed_circles[k][3]], v)
            <= Count(p_args.radius, v)

\* C20: radii are processed in non-increasing order, the accepted radii are a
\* sub-multiset of the input radii in that order, and every accepted center (x, y)
\* of radius r satisfies r <= x <= width - r and r <= y <= height - r.
C20_OrderedAndInsidePlane ==
    /\ AcceptedInOrder
    /\ \A k \in 1 .. Len(placed_circles) :
          LET c == placed_circles[k]
          IN  /\ c[3] <= c[1] /\ c[1] <= p_args.width - c[3]
              /\ c[3] <= c[2] /\ c[2] <= p_args.height - c[3]

----------------------------------------------------------------------------
(* phase_retrieval, lines 518-561 *)

\* A complex field is an array whose entries are pairs <<amplitude, angle>>; angles
\* are counted in eighths of a turn and np.angle gives a value in -3 .. 4, that is
\* in (-pi, pi].  A number of amplitude 0 has angle 0.
TwoPi == 8

Polar(a, ph) == IF a = 0 THEN <<0, 0>> ELSE <<a, ph>>

\* np.angle of a sum of angles: the representative in (-pi, pi]
Principal(ph) == ((ph + 3) % TwoPi) - 3

\* Line 539: np.sqrt(target_psf), a real field
SqrtField(t) == [shape |-> t.shape, data |-> [k \in DOMAIN t.data |-> Polar(ISqrt(t.data[k]), 0)]]

\* waveprop.fresnel.fresnel_conv(u_in, wv, d1, dz)[0]: a complex field of the shape
\* of u_in.  The propagator is external; this stand-in is a fixed function of the
\* field, the wavelength, the pitch and the signed distance, and propagating by dz
\* and by -dz give different fields.
fresnel_conv(u_in, wv, d1, dz) ==
    LET n == Len0(u_in.data)
        nb(k) == u_in.data[(k + 1) % n]
    IN  [shape |-> u_in.shape,
         data |-> [k \in 0 .. (n - 1) |->
                     Polar(u_in.data[k][1] + nb(k)[1] + (wv % 3) + d1,
                           Principal(u_in.data[k][2] + nb(k)[2] + dz * (k + 1)))]]

\* Line 550: np.exp(1j * np.angle(M_phi)), unit amplitude with the angle kept
UnitAmplitude(u) == [shape |-> u.shape, data |-> [k \in DOMAIN u.data |-> <<1, u.data[k][2]>>]]

\* Line 554: np.sqrt(target_psf) * np.exp(1j * np.angle(M_p))
TargetAmplitude(t, u) ==
    [shape |-> u.shape, data |-> [k \in DOMAIN u.data |-> Polar(ISqrt(t.data[k]), u.data[k][2])]]

\* Faulty variant of line 556: 2 pi is added and the remainder is not taken
WrapNoModulo(ph) == ph + TwoPi

\* Line 556 on one entry: (angle + 2 pi) % (2 pi)
Wrap(ph) == (ph + TwoPi) % TwoPi

\* Line 556: phi
WrappedPhase(u) == [shape |-> u.shape, data |-> [k \in DOMAIN u.data |-> Wrap(u.data[k][2])]]

\* Line 559: wv * phi / (2 pi (n - 1)); the index n is given in tenths
HeightOfPhase(phi, wv, n10) ==
    [shape |-> phi.shape,
     data |-> [k \in DOMAIN phi.data |-> FDiv(wv * phi.data[k] * 10, TwoPi * (n10 - 10))]]

PrEvent(op, dz, u, out) == [op |-> op, dz |-> dz, u_in |-> u, out |-> out]

NoPrResult == [status |-> "none", phi |-> NoneArr, height_map |-> NoneArr]

\* Lines 539-544: M_p is initialised and a pitch given as a pair is reduced to its
\* first component, with a warning when the two differ
PrBegin ==
    /\ pr_pc = "call"
    /\ pr_pc' = "loop"
    /\ M_p' = SqrtField(pr_args.target_psf)
    /\ pr_calls' = IF Len(pr_args.d1) = 2 /\ pr_args.d1[1] # pr_args.d1[2]
                   THEN Append(pr_calls, PrEvent("warn", 0, NoneArr, NoneArr))
                   ELSE pr_calls
    /\ UNCHANGED <<pr_args, M_phi, pr_round, pr_result, maskVars, sim, placeVars,
                   procVars, benchVars>>

\* Line 548: back propagation from the sensor to the mask
PrBackward ==
    /\ pr_pc = "loop"
    /\ pr_round < pr_args.n_iter
    /\ LET out == fresnel_conv(M_p, pr_args.wv, pr_args.d1[1], -pr_args.dz)
       IN  /\ M_phi' = out
           /\ pr_calls' = Append(pr_calls, PrEvent("fresnel_conv", -pr_args.dz, M_p, out))
    /\ pr_pc' = "project"
    /\ UNCHANGED <<pr_args, M_p, pr_round, pr_result, maskVars, sim, placeVars,
                   procVars, benchVars>>

\* Line 550: the amplitude at the mask is set to one
PrProject ==
    /\ pr_pc = "project"
    /\ LET out == UnitAmplitude(M_phi)
       IN  /\ M_phi' = out
           /\ pr_calls' = Append(pr_calls, PrEvent("unit_amplitude", 0, M_phi, out))
    /\ pr_pc' = "forward"
    /\ UNCHANGED <<pr_args, M_p, pr_round, pr_result, maskVars, sim, placeVars,
                   procVars, benchVars>>

\* Line 552: forward propagation from the mask to the sensor
PrForward ==
    /\ pr_pc = "forward"
    /\ LET out == fresnel_conv(M_phi, pr_args.wv, pr_args.d1[1], pr_args.dz)
       IN  /\ M_p' = out
           /\ pr_calls' = Append(pr_calls, PrEvent("fresnel_conv", pr_args.dz, M_phi, out))
    /\ pr_pc' = "constrain"
    /\ UNCHANGED <<pr_args, M_phi, pr_round, pr_result, maskVars, sim, placeVars,
                   procVars, benchVars>>

\* Line 554: the amplitude at the sensor is set to sqrt(target_psf); the round is over
PrConstrain ==
    /\ pr_pc = "constrain"
    /\ LET out == TargetAmplitude(pr_args.target_psf, M_p)
       IN  /\ M_p' = out
           /\ pr_calls' = Append(pr_calls, PrEvent("target_amplitude", 0, M_p, out))
    /\ pr_round' = pr_round + 1
    /\ pr_pc' = "loop"
    /\ UNCHANGED <<pr_args, M_phi, pr_result, maskVars, sim, placeVars, procVars, benchVars>>

\* Lines 556-561: the phase of M_phi is wrapped and returned with the height map;
\* M_phi is a local that only the loop body binds
PrReturn ==
    /\ pr_pc = "loop"
    /\ pr_round = pr_args.n_iter
    /\ pr_pc' = "done"
    /\ pr_result' =
         IF M_phi = NoneArr
         THEN [status |-> "UnboundLocalError", phi |-> NoneArr, height_map |-> NoneArr]
         ELSE LET phi == WrappedPhase(M_phi)
              IN  [status |-> "returned", phi |-> phi,
                   height_map |-> HeightOfPhase(phi, pr_args.wv, pr_args.n)]
    /\ UNCHANGED <<pr_args, M_p, M_phi, pr_round, pr_calls, maskVars, sim, placeVars,
                   procVars, benchVars>>

\* Target patterns of two by two pixels with the values an edge detector gives
TargetPatterns ==
    {[shape |-> <<2, 2>>, data |-> d] : d \in [0 .. 3 -> {0, 255}]}

PrArgs ==
    [target_psf : TargetPatterns, wv : {532}, d1 : {<<1>>, <<1, 1>>, <<1, 2>>},
     dz : {1, 2}, n : {12}, n_iter : 0 .. MaxIter]

InitPr ==
    /\ Fresh(NoArgs) /\ PlaceIdle /\ ProcIdle /\ BenchIdle
    /\ pr_pc = "call"
    /\ pr_args \in PrArgs
    /\ M_p = NoneArr
    /\ M_phi = NoneArr
    /\ pr_round = 0
    /\ pr_calls = <<>>
    /\ pr_result = NoPrResult

NextPr == PrBegin \/ PrBackward \/ PrProject \/ PrForward \/ PrConstrain \/ PrReturn

SpecPr == InitPr /\ [][NextPr]_vars

\* C14: with n_iter = 0 phase_retrieval returns normally, the phase it returns is
\* the all-zero initial phase at every pixel and the height map is zero at every pixel.
C14_ZeroIterationsZeroPhase ==
    (pr_pc = "done" /\ pr_args.n_iter = 0) =>
        /\ pr_result.status = "returned"
        /\ \A k \in DOMAIN pr_result.phi.data : pr_result.phi.data[k] = 0
        /\ \A k \in DOMAIN pr_result.height_map.data : pr_result.height_map.data[k] = 0

\* The operations of phase_retrieval other than the warning, in order
Steps == SelectSeq(pr_calls, LAMBDA e : e.op # "warn")

Angles(u) == [k \in DOMAIN u.data |-> u.data[k][2]]

\* Round j of the log: back propagation by -dz, unit amplitude, forward propagation
\* by +dz, target amplitude, each applied to what the step before it produced
RoundInOrder(j) ==
    LET back == Steps[4 * j - 3]
        unit == Steps[4 * j - 2]
        forw == Steps[4 * j - 1]
        targ == Steps[4 * j]
    IN  /\ back.op = "fresnel_conv" /\ back.dz = -pr_args.dz
        /\ back.u_in = (IF j = 1 THEN SqrtField(pr_args.target_psf) ELSE Steps[4 * j - 4].out)
        /\ unit.op = "unit_amplitude" /\ unit.u_in = back.out
        /\ \A k \in DOMAIN unit.out.data : unit.out.data[k][1] = 1
        /\ Angles(unit.out) = Angles(back.out)
        /\ forw.op = "fresnel_conv" /\ forw.dz = pr_args.dz /\ forw.u_in = unit.out
        /\ targ.op = "target_amplitude" /\ targ.u_in = forw.out
        /\ \A k \in DOMAIN targ.out.data :
              /\ targ.out.data[k][1] = ISqrt(pr_args.target_psf.data[k])
              /\ targ.out.data[k][1] # 0 => targ.out.data[k][2] = forw.out.data[k][2]

\* C19: with n_iter = k >= 1 phase_retrieval runs exactly k rounds, each one back
\* propagation (-dz), unit amplitude, forward propagation (+dz), target amplitude;
\* the first back propagation starts from sqrt(target_psf) with zero phase, 2k
\* propagations occur, and the phase returned is the mask-plane phase of round k
\* wrapped into [0, 2 pi).
C19_RoundsInFixedOrder ==
    (pr_pc = "done" /\ pr_args.n_iter >= 1) =>
        LET k == pr_args.n_iter
        IN  /\ pr_result.status = "returned"
            /\ pr_round = k
            /\ Len(Steps) = 4 * k
            /\ \A j \in 1 .. k : RoundInOrder(j)
            /\ Cardinality({i \in 1 .. Len(Steps) : Steps[i].op = "fresnel_conv"}) = 2 * k
            /\ \A i \in DOMAIN pr_result.phi.data :
                  /\ pr_result.phi.data[i] \in 0 .. (TwoPi - 1)
                  /\ pr_result.phi.data[i] % TwoPi = Steps[4 * k - 2].out.data[i][2] % TwoPi

\* C19 witness: three rounds were run on a pattern with an edge and the phase returned
\* has an entry whose angle was negative before the wrap
C19_Witness ==
    /\ pr_pc = "done"
    /\ pr_args.n_iter = 3
    /\ pr_result.status = "returned"
    /\ \E i \in DOMAIN M_phi.data : M_phi.data[i][2] < 0 /\ pr_result.phi.data[i] > 4
    /\ \E i \in DOMAIN pr_args.target_psf.data : pr_args.target_psf.data[i] = 255

----------------------------------------------------------------------------
(* np.random: the generator shared by every mask of the process *)

\* The generator is external; this stand-in is a linear congruential generator of
\* full period.  What matters is that it is one state for the whole process, that
\* np.random.seed sets it as a function of the seed alone, and that every draw is a
\* function of the state and advances it.
RngMod == Pow2(3)

RngNext(g) == (5 * g + 3) % RngMod

\* Faulty variant of np.random.seed: the state is left as it was
SeedIgnored(g, seed) == g

\* np.random.seed(seed) in state g: the new state is a function of the seed alone
SeedState(g, seed) == seed % RngMod

\* np.random.uniform(low, high) drawn in state g: low + (high - low) * u, 0 <= u < 1
UniformAt(g, low, high) == low + ((high - low) * RngNext(g)) \div RngMod

RECURSIVE RngAfter(_, _)
\* The state after n draws
RngAfter(g, n) == IF n = 0 THEN g ELSE RngAfter(RngNext(g), n - 1)

\* np.random.uniform(low, high, n): n draws in a row, as a sequence
UniformSeq(g, low, high, n) == [k \in 1 .. n |-> UniformAt(RngAfter(g, k - 1), low, high)]

----------------------------------------------------------------------------
(* MultiLensArray, lines 329-446 *)

\* Line 368: the upper end 1e-5 of the interval the radii are sampled from, one unit
RadiusHigh == 1

\* max_attempts of place_spheres_on_plane as create_mask calls it (line 420)
DefaultMaxAttempts == 4

\* Faulty variant of lines 377-380: each circle is compared with its successor only
NoOverlapAdjacentOnly(circles) ==
    \A i \in 1 .. (Len(circles) - 1) :
        ~does_circle_overlap(<<circles[i + 1]>>, circles[i][1], circles[i][2], circles[i][3])

\* Lines 375-380: every circle is compared with the circles after it
no_circle_overlap(circles) ==
    \A i \in 1 .. Len(circles) :
        ~does_circle_overlap(SubSeq(circles, i + 1, Len(circles)),
                             circles[i][1], circles[i][2], circles[i][3])

\* Lines 351-369: the outcome of the subclass constructor before super().__init__:
\* the exception raised, or N, the radii and the generator state.  N, radius and loc
\* are NoneArg when they are not given.
MlaInitResult(a, g) ==
    IF a.radius.kind # "none"
    THEN IF a.loc.kind = "none"
         THEN [error |-> "AssertionError", N |-> 0, radius |-> a.radius.v, rng |-> g]
         ELSE IF Len(a.radius.v) # Len(a.loc.v)
         THEN [error |-> "AssertionError", N |-> 0, radius |-> a.radius.v, rng |-> g]
         ELSE LET circles == [i \in 1 .. Len(a.radius.v) |->
                                <<a.loc.v[i][1], a.loc.v[i][2], a.radius.v[i]>>]
              IN  IF ~no_circle_overlap(circles)
                  THEN [error |-> "AssertionError", N |-> Len(a.radius.v),
                        radius |-> a.radius.v, rng |-> g]
                  ELSE [error |-> None, N |-> Len(a.radius.v), radius |-> a.radius.v,
                        rng |-> g]
    ELSE IF a.N.kind = "none"
         THEN [error |-> "AssertionError", N |-> 0, radius |-> <<>>, rng |-> g]
         ELSE [error |-> None, N |-> a.N.v[1],
               radius |-> UniformSeq(SeedState(g, a.seed), a.min_height, RadiusHigh, a.N.v[1]),
               rng |-> RngAfter(SeedState(g, a.seed), a.N.v[1])]

RECURSIVE PlaceFrom(_, _, _, _, _, _, _)
\* Lines 396-411 with the draws taken from the generator: the circles placed from
\* the k-th radius on, and the generator state when the loop is over
PlaceFrom(g, width, height, rs, k, tries, placed) ==
    IF k > Len(rs) THEN [rng |-> g, placed |-> placed]
    ELSE IF tries = DefaultMaxAttempts THEN PlaceFrom(g, width, height, rs, k + 1, 0, placed)
    ELSE LET r == rs[k]
             x == UniformAt(g, r, width - r)
             y == UniformAt(RngNext(g), r, height - r)
             g2 == RngNext(RngNext(g))
         IN  IF ~does_circle_overlap(placed, x, y, r)
             THEN PlaceFrom(g2, width, height, rs, k + 1, 0, Append(placed, <<x, y, r>>))
             ELSE PlaceFrom(g2, width, height, rs, k, tries + 1, placed)

\* Lines 390-416 with the draws taken from the generator
PlaceSeeded(g, width, height, radius) ==
    LET out == PlaceFrom(g, width, height, SortedDesc(radius), 1, 0, <<>>)
        n == Len(out.placed)
    IN  IF n = 0
        THEN [error |-> "IndexError", loc |-> <<>>, radius |-> <<>>, rng |-> out.rng]
        ELSE [error |-> None,
              loc |-> [k \in 1 .. n |-> <<out.placed[k][1], out.placed[k][2]>>],
              radius |-> [k \in 1 .. n |-> out.placed[k][3]],
              rng |-> out.rng]

\* Lengths in pixels are fixed-point numbers counted in quarters of a pixel, and
\* heights are counted in quarters of the unit of length
Sub == 4

\* Lines 421-422: centers and radii in pixels; the centers are divided by the pitch
\* of their own axis, the radii by the pitch of axis 0
LocsRes(loc, fs) ==
    [k \in 1 .. Len(loc) |-> <<FDiv(Sub * loc[k][1], fs[1]), FDiv(Sub * loc[k][2], fs[2])>>]

RadiusRes(radius, fs) == [k \in 1 .. Len(radius) |-> FDiv(Sub * radius[k], fs[1])]

\* Faulty variant of lines 442-446: the highest cap among the lenses that cover the
\* point, instead of the cap of the first such lens
MaxContribution(radius, locs, X, Y, k) ==
    LET caps == {ISqrt(radius[i] * radius[i] - (X - locs[i][1]) * (X - locs[i][1])
                        - (Y - locs[i][2]) * (Y - locs[i][2])) :
                    i \in {j \in 1 .. Len(locs) :
                             (X - locs[j][1]) * (X - locs[j][1])
                               + (Y - locs[j][2]) * (Y - locs[j][2]) < radius[j] * radius[j]}}
    IN  IF caps = {} THEN 0 ELSE CHOOSE c \in caps : \A d \in caps : d <= c

RECURSIVE lens_contribution(_, _, _, _, _)
\* Lines 440-446, the loop from the k-th lens on; X, Y, the centers, the radii and
\* the cap height are in pixels
lens_contribution(radius, locs, X, Y, k) ==
    IF k > Len(locs) THEN 0
    ELSE LET dx == X - locs[k][1]
             dy == Y - locs[k][2]
         IN  IF dx * dx + dy * dy < radius[k] * radius[k]
             THEN ISqrt(radius[k] * radius[k] - dx * dx - dy * dy)
             ELSE lens_contribution(radius, locs, X, Y, k + 1)

\* Lines 432-438: the height map; the center of pixel (x, y) is (x + 0.5, y + 0.5),
\* and the cap height in pixels is multiplied by the pitch of axis 0
create_height_map(res, min_height, fs, radius, locs) ==
    Arr2(res[1], res[2],
         LAMBDA x, y : Sub * min_height
                         + lens_contribution(radius, locs, Sub * x + Sub \div 2,
                                             Sub * y + Sub \div 2, 1) * fs[1])

\* Line 425 and 430 on one entry: the angle of exp(1j * height * (n - 1) * 2 pi / wv)
\* for an index n in tenths
PhaseOfHeight(h, n10, wv) == Principal((h * (n10 - 10) * TwoPi) \div (Sub * 10 * wv))

\* Lines 418-430 once the lenses are known
MlaField(a, res, fs, loc, radius) ==
    LET height == create_height_map(res, a.min_height, fs, RadiusRes(radius, fs), LocsRes(loc, fs))
    IN  [height_map |-> height,
         mask |-> [shape |-> height.shape,
                   data |-> [k \in DOMAIN height.data |->
                               <<1, PhaseOfHeight(height.data[k], a.refractive_index, a.design_wv)>>]]]

\* A mask as the process sees it once its constructor is over: the exception that
\* ended construction and the stage it was raised in, or the attributes
Outcome(variant, a, stage, err, radius, loc, height_map, target_psf, field, psfs) ==
    [variant |-> variant, args |-> a, stage |-> stage, error |-> err, radius |-> radius,
     loc |-> loc, height_map |-> height_map, target_psf |-> target_psf, mask |-> field,
     psf |-> psfs]

\* The angles of a field of unit amplitude, as an array
AngleArray(u) == [shape |-> u.shape, data |-> [k \in DOMAIN u.data |-> u.data[k][2]]]

\* Lines 155-172 for a phase mask: one intensity slice per wavelength
PsfOfField(u, kw, fs) ==
    IntensityOf([i \in 1 .. Len(kw.psf_wavelength) |->
                    angular_spectrum(AngleArray(u), kw.psf_wavelength[i], fs, kw.distance_sensor)])

\* MultiLensArray(**a) called with the generator in state g: the mask and the state
\* of the generator afterwards
MultiLensArrayNew(a, g) ==
    LET i == MlaInitResult(a, g)
        m == MaskInitResult(a.kw)
        placed == IF a.loc.kind = "none"
                  THEN PlaceSeeded(i.rng, m.size[1], m.size[2], i.radius)
                  ELSE [error |-> IF Len(a.loc.v) = 0
                                  THEN "ValueError: operands could not be broadcast together"
                                  ELSE None,
                        loc |-> a.loc.v, radius |-> i.radius, rng |-> i.rng]
        f == MlaField(a, m.resolution, m.feature_size, placed.loc, placed.radius)
    IN  IF i.error # None
        THEN [rng |-> i.rng,
              mask |-> Outcome("MultiLensArray", a, "subclass_init", i.error, i.radius, <<>>,
                               NoneArr, NoneArr, NoneArr, <<>>)]
        ELSE IF m.error # None
        THEN [rng |-> i.rng,
              mask |-> Outcome("MultiLensArray", a, "mask_init", m.error, i.radius, <<>>,
                               NoneArr, NoneArr, NoneArr, <<>>)]
        ELSE IF placed.error # None
        THEN [rng |-> placed.rng,
              mask |-> Outcome("MultiLensArray", a, "create_mask", placed.error, i.radius, <<>>,
                               NoneArr, NoneArr, NoneArr, <<>>)]
        ELSE [rng |-> placed.rng,
              mask |-> Outcome("MultiLensArray", a, "done", None, placed.radius, placed.loc,
                               f.height_map, NoneArr, f.mask,
                               PsfOfField(f.mask, a.kw, m.feature_size))]

----------------------------------------------------------------------------
(* HeightVarying, lines 632-665 *)

\* Lines 655-658 on one entry: the height times 2 pi (n - 1) / wavelength, modulo
\* 2 pi, in eighths of a turn; the index n is given in tenths
get_phi(h, n10, wv) == ((h * (n10 - 10) * TwoPi) \div (10 * wv)) % TwoPi

\* HeightVarying(**a) called with the generator in state g
HeightVaryingNew(a, g) ==
    LET g1 == IF a.height_map = NoneArr THEN SeedState(g, a.seed) ELSE g
        m == MaskInitResult(a.kw)
        n == m.resolution[1] * m.resolution[2]
        drawn == UniformSeq(g1, a.height_range[1], a.height_range[2], n)
        hm == IF a.height_map = NoneArr
              THEN [shape |-> m.resolution, data |-> [k \in 0 .. (n - 1) |-> drawn[k + 1]]]
              ELSE a.height_map
        g2 == IF a.height_map = NoneArr THEN RngAfter(g1, n) ELSE g1
        field == [shape |-> hm.shape,
                  data |-> [k \in DOMAIN hm.data |->
                              <<1, Principal(get_phi(hm.data[k], a.refractive_index, a.wavelength))>>]]
    IN  IF m.error # None
        THEN [rng |-> g1,
              mask |-> Outcome("HeightVarying", a, "mask_init", m.error, <<>>, <<>>,
                               a.height_map, NoneArr, NoneArr, <<>>)]
        ELSE IF hm.shape # m.resolution
        THEN [rng |-> g2,
              mask |-> Outcome("HeightVarying", a, "create_mask", "AssertionError", <<>>, <<>>,
                               hm, NoneArr, NoneArr, <<>>)]
        ELSE [rng |-> g2,
              mask |-> Outcome("HeightVarying", a, "done", None, <<>>, <<>>, hm, NoneArr,
                               field, PsfOfField(field, a.kw, m.feature_size))]

----------------------------------------------------------------------------
(* PhaseContour, lines 454-515 *)

\* perlin_numpy.generate_perlin_noise_2d(shape, res) in generator state g: the
\* library is external and takes no generator or seed, it draws one gradient per
\* node of a grid of res[0] + 1 by res[1] + 1 nodes from np.random.  This stand-in
\* makes the noise, a value between -1 and 1 counted in halves, a fixed function of
\* those draws.
generate_perlin_noise_2d(g, shape, res) ==
    LET nodes == (res[1] + 1) * (res[2] + 1)
        grad == UniformSeq(g, 0, TwoPi, nodes)
        node(i, j) == ((i * res[1]) \div shape[1]) * (res[2] + 1) + ((j * res[2]) \div shape[2]) + 1
    IN  [rng |-> RngAfter(g, nodes),
         noise |-> Arr2(shape[1], shape[2], LAMBDA i, j : ((grad[node(i, j)] + i + 2 * j) % 5) - 2)]

\* Line 500 on one entry: np.clip(np.round(np.interp(v, (-1, 1), (0, 1))), 0, 1).
\* (v + 1) / 2 rounds to 1 or more exactly when v > 0, a tie at 0.5 going to 0
Binary(v) == IF v > 0 THEN 1 ELSE 0

\* Line 501: np.interp(binary, (-1, 1), (0, 255)).astype(np.uint8): 127 or 255
Gray(b) == IF b = 1 THEN 255 ELSE 127

\* cv.Canny(image, 0, 255): the detector is external; this stand-in marks with 255
\* the pixels that have a neighbour of another value in their row or column
Canny(img) ==
    LET R == img.shape[1]
        C == img.shape[2]
        differs(i, j, k, l) ==
            /\ k \in 0 .. (R - 1) /\ l \in 0 .. (C - 1)
            /\ At(img, k, l) # At(img, i, j)
    IN  Arr2(R, C, LAMBDA i, j :
                IF differs(i, j, i - 1, j) \/ differs(i, j, i + 1, j)
                   \/ differs(i, j, i, j - 1) \/ differs(i, j, i, j + 1)
                THEN 255 ELSE 0)

\* The value of f at v, with v computed once: the assignment of an intermediate
\* result to a local variable
Bind(v, f(_)) == CHOOSE r \in {f(x) : x \in {v}} : TRUE

RECURSIVE PrRounds(_, _, _, _, _, _, _)
\* Lines 546-554: M_phi after k more rounds
PrRounds(Mp, Mphi, target, wv, d1, dz, k) ==
    IF k = 0 THEN Mphi
    ELSE Bind(fresnel_conv(Mp, wv, d1, -dz), LAMBDA b :
         Bind(UnitAmplitude(b), LAMBDA back :
         Bind(fresnel_conv(back, wv, d1, dz), LAMBDA f :
         Bind(TargetAmplitude(target, f), LAMBDA forw :
              PrRounds(forw, back, target, wv, d1, dz, k - 1)))))

\* Lines 518-561 with height_map=True, as one function
phase_retrieval(target, wv, d1, dz, n, n_iter) ==
    Bind(SqrtField(target), LAMBDA Mp0 :
    Bind(PrRounds(Mp0, NoneArr, target, wv, d1[1], dz, n_iter), LAMBDA Mphi :
         IF Mphi = NoneArr
         THEN [status |-> "UnboundLocalError", phi |-> NoneArr, height_map |-> NoneArr]
         ELSE Bind(WrappedPhase(Mphi), LAMBDA phi :
                   [status |-> "returned", phi |-> phi,
                    height_map |-> HeightOfPhase(phi, wv, n)])))

\* Lines 491-501: the target intensity, the edges of the binarised noise
ContourTarget(noise) ==
    Bind([shape |-> noise.shape, data |-> [k \in DOMAIN noise.data |-> Binary(noise.data[k])]],
         LAMBDA binary :
    Bind([shape |-> binary.shape, data |-> [k \in DOMAIN binary.data |-> Gray(binary.data[k])]],
         LAMBDA gray : Canny(gray)))

\* Lines 504-515 for a phase retrieval that returned pr
ContourField(pr) ==
    [shape |-> pr.phi.shape,
     data |-> [k \in DOMAIN pr.phi.data |-> <<1, Principal(pr.phi.data[k])>>]]

\* PhaseContour(**a) called with the generator in state g; resolution is at least
\* noise_period on both axes
PhaseContourNew(a, g, kind) ==
    Bind(MaskInitResult(a.kw), LAMBDA m :
    IF m.error # None
    THEN [rng |-> g,
          mask |-> Outcome("PhaseContour", a, "mask_init", m.error, <<>>, <<>>, NoneArr,
                           NoneArr, NoneArr, <<>>)]
    ELSE
    Bind(generate_perlin_noise_2d(g,
             <<(m.resolution[1] \div a.noise_period[1]) * a.noise_period[1],
               (m.resolution[2] \div a.noise_period[2]) * a.noise_period[2]>>,
             a.noise_period), LAMBDA gen :
    Bind(IF NeedsUpscale(m.resolution, gen.noise)
         THEN Squeeze(Resize(NewAxis(gen.noise), <<m.resolution[1], m.resolution[2], 1>>, kind))
         ELSE gen.noise, LAMBDA noise :
    Bind(ContourTarget(noise), LAMBDA target :
    Bind(phase_retrieval(target, a.design_wv, m.feature_size, a.kw.distance_sensor,
                         a.refractive_index, a.n_iter), LAMBDA pr :
    IF pr.status # "returned"
    THEN [rng |-> gen.rng,
          mask |-> Outcome("PhaseContour", a, "create_mask", pr.status, <<>>, <<>>, NoneArr,
                           target, NoneArr, <<>>)]
    ELSE
    Bind(ContourField(pr), LAMBDA field :
    Bind(PsfOfField(field, a.kw, m.feature_size), LAMBDA p :
         [rng |-> gen.rng,
          mask |-> Outcome("PhaseContour", a, "done", None, <<>>, <<>>, pr.height_map,
                           target, field, p)])))))))

\* CodedAperture(**a): np.random is not used
CodedApertureNew(a, g, kind) ==
    LET m == MaskInitResult(a)
        c == CodedCreateMask(a, m.resolution, kind)
    IN  IF m.error # None
        THEN [rng |-> g,
              mask |-> Outcome("CodedAperture", a, "mask_init", m.error, <<>>, <<>>, NoneArr,
                               NoneArr, NoneArr, <<>>)]
        ELSE IF c.error # None
        THEN [rng |-> g,
              mask |-> Outcome("CodedAperture", a, "create_mask", c.error, <<>>, <<>>, NoneArr,
                               NoneArr, NoneArr, <<>>)]
        ELSE IF Len(a.psf_wavelength) > 0 /\ c.mask.shape # m.resolution
        THEN [rng |-> g,
              mask |-> Outcome("CodedAperture", a, "compute_psf", "ValueError", <<>>, <<>>,
                               NoneArr, NoneArr, c.mask, <<>>)]
        ELSE [rng |-> g,
              mask |-> Outcome("CodedAperture", a, "done", None, <<>>, <<>>, NoneArr, NoneArr,
                               c.mask,
                               IntensityOf([i \in 1 .. Len(a.psf_wavelength) |->
                                   angular_spectrum(c.mask, a.psf_wavelength[i],
                                                    m.feature_size, a.distance_sensor)]))]

----------------------------------------------------------------------------
(* A process that constructs masks one after the other *)

Call(variant, a) == [variant |-> variant, args |-> a]

\* The next constructor call of the process
NextCall == script[Len(built) + 1]

\* The states the generator can be in when it is drawn from
StartStates(g) == IF g = Unseeded THEN 0 .. (RngMod - 1) ELSE {g}

BuildMultiLensArray ==
    /\ Len(built) < Len(script)
    /\ NextCall.variant = "MultiLensArray"
    /\ \E r \in {MultiLensArrayNew(NextCall.args, rng)} :
           /\ rng' = r.rng
           /\ built' = Append(built, r.mask)
    /\ UNCHANGED <<script, maskVars, sim, placeVars, prVars, benchVars>>

BuildHeightVarying ==
    /\ Len(built) < Len(script)
    /\ NextCall.variant = "HeightVarying"
    /\ \E r \in {HeightVaryingNew(NextCall.args, rng)} :
           /\ rng' = r.rng
           /\ built' = Append(built, r.mask)
    /\ UNCHANGED <<script, maskVars, sim, placeVars, prVars, benchVars>>

BuildPhaseContour ==
    /\ Len(built) < Len(script)
    /\ NextCall.variant = "PhaseContour"
    /\ \E g \in StartStates(rng), kind \in {"nearest", "linear", "cubic"} :
         \E r \in {PhaseContourNew(NextCall.args, g, kind)} :
             /\ rng' = r.rng
             /\ built' = Append(built, r.mask)
    /\ UNCHANGED <<script, maskVars, sim, placeVars, prVars, benchVars>>

BuildCodedAperture ==
    /\ Len(built) < Len(script)
    /\ NextCall.variant = "CodedAperture"
    /\ \E kind \in {"nearest", "linear", "cubic"} :
         \E r \in {CodedApertureNew(NextCall.args, rng, kind)} :
             /\ rng' = r.rng
             /\ built' = Append(built, r.mask)
    /\ UNCHANGED <<script, maskVars, sim, placeVars, prVars, benchVars>>

----------------------------------------------------------------------------
(* Single constructions of MultiLensArray and HeightVarying *)

\* The keyword arguments passed on to Mask.__init__
Kw(res, fs) ==
    [resolution |-> res, size |-> NoneArg, feature_size |-> fs,
     psf_wavelength |-> <<550>>, distance_sensor |-> 4]

MlaArgs(N, radius, loc, seed, min_height, res, fs) ==
    [N |-> N, radius |-> radius, loc |-> loc, refractive_index |-> 12, design_wv |-> 1,
     seed |-> seed, min_height |-> min_height, kw |-> Kw(res, fs)]

\* Centers at the corners of a square, one unit away from the axes
Corners == {<<x, y>> : x \in {1, MaxLoc}, y \in {1, MaxLoc}}

\* Lists of at most n lenses, a lens being a center and a radius
LensLists(n) == SeqsUpTo(Corners \X (1 .. MaxRadius), n)

\* The radii of the first n lenses of a list, and their centers
RadiiOf(l, n) == SeqArg([k \in 1 .. n |-> l[k][2]])

LocsOf(l, n) == SeqArg([k \in 1 .. n |-> l[k][1]])

\* Explicit geometry: lists of equal lengths on square pixels, shorter lists on
\* other pitches, and lists of which one is a lens short or absent
ExplicitCalls ==
    {Call("MultiLensArray", MlaArgs(NoneArg, RadiiOf(l, Len(l)), LocsOf(l, Len(l)), 0, 2,
                                    <<3, 3>>, FloatArg(1))) : l \in LensLists(MaxExplicit)}
    \cup {Call("MultiLensArray", MlaArgs(NoneArg, RadiiOf(l, Len(l)), LocsOf(l, Len(l)), 0, 2,
                                         <<3, 3>>, fs)) :
            l \in LensLists(MaxExplicit - 1), fs \in {SeqArg(<<1, 3>>), FloatArg(2), SeqArg(<<2, 6>>)}}
    \cup {Call("MultiLensArray", MlaArgs(NoneArg, RadiiOf(l, Len(l) - d[1]),
                                         LocsOf(l, Len(l) - d[2]), 0, 2, <<3, 3>>,
                                         FloatArg(1))) :
            l \in LensLists(MaxExplicit - 1) \ {<<>>}, d \in {<<1, 0>>, <<0, 1>>}}
    \cup {Call("MultiLensArray", MlaArgs(NoneArg, RadiiOf(l, Len(l)), NoneArg, 0, 2,
                                         <<3, 3>>, FloatArg(1))) : l \in LensLists(1)}

\* Sampled geometry: N lenses, or neither N nor the radii
SampledCalls ==
    {Call("MultiLensArray", MlaArgs(N, NoneArg, NoneArg, seed, mh, <<5, 5>>, FloatArg(1))) :
        N \in {NoneArg} \cup {IntArg(n) : n \in 0 .. MaxLenses}, seed \in 0 .. 3, mh \in 2 .. 3}

HvArgs(height_map, seed, res) ==
    [refractive_index |-> 12, wavelength |-> 7, height_map |-> height_map,
     height_range |-> <<1, 3>>, seed |-> seed, kw |-> Kw(res, FloatArg(1))]

\* Height maps of four entries, as a two by two array or as a vector, and of two
\* entries
HeightMaps ==
    {[shape |-> sh, data |-> d] : sh \in {<<2, 2>>, <<4>>}, d \in [0 .. 3 -> 0 .. MaxHeight]}
    \cup {[shape |-> <<1, 2>>, data |-> d] : d \in [0 .. 1 -> 0 .. MaxHeight]}

HeightCalls ==
    {Call("HeightVarying", HvArgs(hm, 0, <<2, 2>>)) : hm \in HeightMaps}
    \cup {Call("HeightVarying", HvArgs(NoneArr, seed, res)) :
            seed \in 0 .. 2, res \in {<<2, 2>>, <<2, 3>>, <<2>>}}

InitLens ==
    /\ Fresh(NoArgs) /\ PlaceIdle /\ PrIdle /\ BenchIdle
    /\ rng = Unseeded
    /\ script \in {<<c>> : c \in ExplicitCalls \cup SampledCalls \cup HeightCalls}
    /\ built = <<>>

NextLens == BuildMultiLensArray \/ BuildHeightVarying

SpecLens == InitLens /\ [][NextLens]_vars

\* The masks of a variant constructed so far
Built(variant) == {k \in 1 .. Len(built) : built[k].variant = variant}

\* The circles an explicit geometry describes
CirclesOf(a) == [i \in 1 .. Len(a.radius.v) |-> <<a.loc.v[i][1], a.loc.v[i][2], a.radius.v[i]>>]

\* C11: with explicit radii and locations, construction goes on to Mask.__init__ if
\* and only if the two lists have equal length and every two lenses have centers at
\* least the sum of their radii apart; otherwise it aborts with no field and no PSF.
C11_ExplicitGeometryValidated ==
    \A k \in Built("MultiLensArray") :
        LET b == built[k]
            a == b.args
        IN  (a.radius.kind # "none" /\ a.loc.kind # "none") =>
              /\ (b.stage # "subclass_init") <=>
                    (Len(a.radius.v) = Len(a.loc.v) /\ PairwiseApart(CirclesOf(a)))
              /\ b.stage = "subclass_init" =>
                    /\ b.error = "AssertionError"
                    /\ b.mask = NoneArr /\ b.psf = <<>> /\ b.height_map = NoneArr

\* C11 witness: three lenses, two of them tangent, were accepted and the mask built
C11_Witness ==
    \E k \in Built("MultiLensArray") :
        LET b == built[k]
        IN  /\ b.args.radius.kind # "none" /\ b.args.loc.kind # "none"
            /\ Len(b.args.radius.v) = 3
            /\ b.stage = "done"
            /\ b.mask # NoneArr
            /\ b.args.loc.v[1] = <<1, 1>> /\ b.args.loc.v[2] = <<1, MaxLoc>>
            /\ b.args.radius.v[1] + b.args.radius.v[2] = MaxLoc - 1

\* The lenses of a constructed mask whose disk, in pixels, strictly contains the
\* center (x + 0.5, y + 0.5) of pixel (x, y), and the square of the cap height of
\* lens k above that center
PixelDist2(b, fs, k, x, y) ==
    LET c == LocsRes(b.loc, fs)[k]
        X == Sub * x + Sub \div 2
        Y == Sub * y + Sub \div 2
    IN  (X - c[1]) * (X - c[1]) + (Y - c[2]) * (Y - c[2])

Covering(b, fs, x, y) ==
    {k \in 1 .. Len(b.loc) :
        PixelDist2(b, fs, k, x, y) < RadiusRes(b.radius, fs)[k] * RadiusRes(b.radius, fs)[k]}

Cap2(b, fs, k, x, y) ==
    RadiusRes(b.radius, fs)[k] * RadiusRes(b.radius, fs)[k] - PixelDist2(b, fs, k, x, y)

\* The height of every pixel of every constructed MultiLensArray is min_height plus
\* scale(fs) times the cap height of the first lens that covers the pixel center,
\* and min_height when no lens covers it
HeightsAre(scale(_)) ==
    \A n \in Built("MultiLensArray") :
        LET b == built[n]
            fs == MaskInitResult(b.args.kw).feature_size
        IN  b.stage = "done" =>
              \A x \in 0 .. (b.height_map.shape[1] - 1), y \in 0 .. (b.height_map.shape[2] - 1) :
                 LET cov == Covering(b, fs, x, y)
                     first == CHOOSE k \in cov : \A j \in cov : k <= j
                     v == At(b.height_map, x, y)
                 IN  /\ v >= Sub * b.args.min_height
                     /\ v = Sub * b.args.min_height
                              + (IF cov = {} THEN 0
                                 ELSE scale(fs) * ISqrt(Cap2(b, fs, first, x, y)))

\* C13 as stated: the height of pixel (x, y) is min_height plus the cap height
\* sqrt(r^2 - dx^2 - dy^2) of the first lens in order whose disk strictly contains
\* (x + 0.5, y + 0.5), or min_height when there is none, and it is >= min_height.
C13_FirstLensCap == HeightsAre(LAMBDA fs : 1)

\* C13 amended: the cap height, which is computed in pixels, is multiplied by the
\* pitch feature_size[0] before it is added to min_height; first match wins.
C13_FirstLensCapTimesPitch == HeightsAre(LAMBDA fs : fs[1])

\* C13 witness: a mask on a pitch other than one unit with a pixel that no lens
\* covers and a pixel that two lenses cover, the second of them with the higher cap
C13_Witness ==
    \E n \in Built("MultiLensArray") :
        LET b == built[n]
            fs == MaskInitResult(b.args.kw).feature_size
        IN  /\ b.stage = "done"
            /\ fs[1] # 1
            /\ \E x \in 0 .. 2, y \in 0 .. 2 : Covering(b, fs, x, y) = {}
            /\ \E x \in 0 .. 2, y \in 0 .. 2 :
                  /\ Covering(b, fs, x, y) = {1, 2}
                  /\ Cap2(b, fs, 1, x, y) < Cap2(b, fs, 2, x, y)
                  /\ At(b.height_map, x, y)
                       = Sub * b.args.min_height + fs[1] * ISqrt(Cap2(b, fs, 1, x, y))
                  /\ ISqrt(Cap2(b, fs, 1, x, y)) < ISqrt(Cap2(b, fs, 2, x, y))

\* C15: every constructed HeightVarying mask, its height map supplied or sampled,
\* has a height map of the shape of the resolution with every value within
\* height_range; a supplied map of another shape aborts construction.
C15_HeightMapInRange ==
    \A n \in Built("HeightVarying") :
        LET b == built[n]
        IN  /\ b.stage = "done" =>
                 /\ b.height_map.shape = b.args.kw.resolution
                 /\ \A k \in DOMAIN b.height_map.data :
                       /\ b.args.height_range[1] <= b.height_map.data[k]
                       /\ b.height_map.data[k] <= b.args.height_range[2]
            /\ (b.args.height_map # NoneArr /\ b.args.height_map.shape # b.args.kw.resolution)
                 => b.stage # "done"

----------------------------------------------------------------------------
(* Several constructions in one process *)

PcArgs(n_iter) ==
    [noise_period |-> <<2, 2>>, refractive_index |-> 12, n_iter |-> n_iter, design_wv |-> 532,
     kw |-> Kw(<<2, 2>>, FloatArg(1))]

CodedArgs ==
    [resolution |-> <<6, 6>>, size |-> NoneArg, feature_size |-> FloatArg(1), method |-> "MLS",
     n_bits |-> 2, psf_wavelength |-> <<550>>, distance_sensor |-> 4]

\* The constructor calls a process chooses from
ProcessCalls ==
    {Call("MultiLensArray", MlaArgs(IntArg(2), NoneArg, NoneArg, seed, 2, <<5, 5>>, FloatArg(1))) :
        seed \in 2 .. 3}
    \cup {Call("HeightVarying", HvArgs(NoneArr, seed, <<2, 2>>)) : seed \in 0 .. 1}
    \cup {Call("PhaseContour", PcArgs(1)), Call("CodedAperture", CodedArgs)}

InitProc ==
    /\ Fresh(NoArgs) /\ PlaceIdle /\ PrIdle /\ BenchIdle
    /\ rng = Unseeded
    /\ script \in SeqsUpTo(ProcessCalls, MaxBuilt)
    /\ built = <<>>

NextProc ==
    BuildMultiLensArray \/ BuildHeightVarying \/ BuildPhaseContour \/ BuildCodedAperture

SpecProc == InitProc /\ [][NextProc]_vars

\* Two masks of the process were constructed with the same arguments
SameCall(i, j) == i < j /\ script[i] = script[j]

\* C16: two MultiLensArray masks with sampled geometry, or two HeightVarying masks
\* with a sampled height map, constructed in the same process with the same seed and
\* the same other arguments have the same lenses, height map and field, whatever
\* was constructed before or between them.
C16_SameSeedSameMask ==
    \A i \in 1 .. Len(built), j \in 1 .. Len(built) :
        (SameCall(i, j) /\ built[i].variant \in {"MultiLensArray", "HeightVarying"}) =>
            /\ built[i].radius = built[j].radius
            /\ built[i].loc = built[j].loc
            /\ built[i].height_map = built[j].height_map
            /\ built[i].mask = built[j].mask
            /\ built[i].psf = built[j].psf

\* C16 witness: two sampled MultiLensArray masks of the same seed with a PhaseContour
\* between them, two lenses each
C16_Witness ==
    /\ Len(built) = 3
    /\ SameCall(1, 3)
    /\ built[1].variant = "MultiLensArray" /\ built[2].variant = "PhaseContour"
    /\ built[1].stage = "done" /\ built[3].stage = "done"
    /\ Len(built[3].radius) = 2

\* C17: two PhaseContour masks constructed with the same arguments in the same
\* process have the same target_psf and the same field, whatever masks were
\* constructed before each of them.
C17_PhaseContourIndependentOfHistory ==
    \A i \in 1 .. Len(built), j \in 1 .. Len(built) :
        (SameCall(i, j) /\ built[i].variant = "PhaseContour") =>
            /\ built[i].target_psf = built[j].target_psf
            /\ built[i].mask = built[j].mask

----------------------------------------------------------------------------
(* benchmark, lensless/eval/benchmark.py lines 63-167 *)

\* An image is the tuple of its pixel values; a batch of images that was divided by
\* per-sample maxima is kept exact as the undivided data with the divisor of every
\* sample: [data |-> images, scale |-> divisors]

\* len(dataloader): the number of batches, the last one possibly short
NumBatches(n, b) == (n + b - 1) \div b

\* The dataset positions of the n-th batch the dataloader yields (n from 0)
BatchSamples(n) ==
    LET first == n * b_args.batchsize
        last == IF first + b_args.batchsize <= Len(b_args.outputs)
                THEN first + b_args.batchsize ELSE Len(b_args.outputs)
    IN  [i \in 1 .. (last - first) |-> first + i - 1]

RECURSIVE MaxOf(_)
\* torch.amax over the pixels of one image
MaxOf(img) ==
    IF Len(img) = 1 THEN img[1]
    ELSE LET m == MaxOf(Tail(img)) IN IF img[1] >= m THEN img[1] ELSE m

RECURSIVE SaveLoop(_, _, _, _)
\* Lines 125-130: the loop over batch_idx = arange(start, start + batchsize) from
\* position i on; indexing the prediction beyond the samples of a short batch raises.
\* A save is logged with the file name (name), the image written and the dataset
\* position of the sample the image is the prediction of (value)
SaveLoop(start, i, pred, out) ==
    IF i = b_args.batchsize THEN [log |-> out, error |-> None]
    ELSE IF start + i \in {b_args.save_idx.v[k] : k \in 1 .. Len(b_args.save_idx.v)}
         THEN IF i >= Len(pred)
              THEN [log |-> out, error |-> "IndexError"]
              ELSE SaveLoop(start, i + 1, pred,
                            Append(out, [op |-> "save", name |-> start + i, batch |-> batch_no,
                                         image |-> pred[i + 1],
                                         value |-> BatchSamples(batch_no)[i + 1]]))
         ELSE SaveLoop(start, i + 1, pred, out)

\* Faulty variant of lines 133-137: a batch with a zero maximum is divided as well
NormalizedAlways(pred) == [data |-> pred, scale |-> [k \in 1 .. Len(pred) |-> MaxOf(pred[k])]]

\* Lines 133-137: the batch is divided by the per-sample maxima when none of them is
\* zero, and left as it is otherwise
Normalized(pred) ==
    IF \A k \in 1 .. Len(pred) : MaxOf(pred[k]) # 0
    THEN [data |-> pred, scale |-> [k \in 1 .. Len(pred) |-> MaxOf(pred[k])]]
    ELSE [data |-> pred, scale |-> [k \in 1 .. Len(pred) |-> 1]]

RECURSIVE SumOver(_, _)
SumOver(f, k) == IF k = 0 THEN 0 ELSE f[k] + SumOver(f, k - 1)

\* metrics[metric](prediction, lensed): the metrics are external; this stand-in is a
\* fixed function of the metric and of the values of the batch as they are after the
\* normalisation step
MetricValue(metric, pred) ==
    LET perSample == [k \in 1 .. Len(pred.data) |->
                        (SumOver(pred.data[k], Len(pred.data[k])) * 12) \div pred.scale[k]]
    IN  SumOver(perSample, Len(perSample)) + (IF metric = "MSE" THEN 0 ELSE 1)

\* Line 145: "LPIPS" in metric
IsLpips(metric) == metric \in {"LPIPS_Vgg", "LPIPS_Alex"}

RECURSIVE MetricsLoop(_, _, _)
\* Lines 141-158: every metric of the dictionary is accumulated, in order
MetricsLoop(k, values, out) ==
    IF k > Len(b_args.metrics) THEN [values |-> values, log |-> out]
    ELSE LET metric == b_args.metrics[k]
             v == IF metric = "ReconstructionError" THEN batch_no
                  ELSE MetricValue(metric, prediction)
         IN  MetricsLoop(k + 1, [values EXCEPT ![k] = @ + v],
                         Append(out, [op |-> "metric", name |-> metric, batch |-> batch_no,
                                      image |-> IF IsLpips(metric) /\ b_args.channels = 1
                                                THEN <<"repeat">> ELSE <<>>,
                                      value |-> v]))

\* Line 137: the message printed
Warning == "Warning: prediction is zero"

BenchEvent(op) == [op |-> op, name |-> "", batch |-> batch_no, image |-> <<>>, value |-> 0]

\* Lines 87-92: the accumulator is cleared, the model reset and idx set to 0
BenchBegin ==
    /\ b_pc = "call"
    /\ b_pc' = "batch"
    /\ metrics_values' = [k \in 1 .. Len(b_args.metrics) |-> 0]
    /\ b_log' = Append(b_log, BenchEvent("reset"))
    /\ b_idx' = 0
    /\ UNCHANGED <<b_args, batch_no, prediction, b_result, maskVars, sim, placeVars,
                   procVars, prVars>>

\* Lines 93-130: the next batch is taken, the model applied to it, and the
\* predictions whose index is in save_idx are saved; the loop rebinds idx
BenchPredict ==
    /\ b_pc = "batch"
    /\ batch_no < NumBatches(Len(b_args.outputs), b_args.batchsize)
    /\ LET samples == BatchSamples(batch_no)
           pred == [i \in 1 .. Len(samples) |-> b_args.outputs[samples[i] + 1]]
           applied == Append(b_log, BenchEvent(IF b_args.batchsize = 1 THEN "apply"
                                               ELSE "batch_call"))
           saved == IF b_args.save_idx.kind = "none" THEN [log |-> applied, error |-> None]
                    ELSE SaveLoop(b_idx, 0, pred, applied)
       IN  /\ prediction' = [data |-> pred, scale |-> [k \in 1 .. Len(pred) |-> 1]]
           /\ b_log' = saved.log
           /\ IF saved.error # None
              THEN /\ b_pc' = "failed"
                   /\ b_result' = [status |-> saved.error, values |-> <<>>, over |-> 0]
                   /\ UNCHANGED b_idx
              ELSE /\ b_pc' = "normalize"
                   /\ b_idx' = IF b_args.save_idx.kind = "none" THEN b_idx
                               ELSE b_idx + b_args.batchsize - 1
                   /\ UNCHANGED b_result
    /\ UNCHANGED <<b_args, batch_no, metrics_values, maskVars, sim, placeVars, procVars, prVars>>

\* Lines 132-139: normalisation of the prediction, with a warning instead when a
\* maximum is zero
BenchNormalize ==
    /\ b_pc = "normalize"
    /\ b_pc' = "metrics"
    /\ prediction' = Normalized(prediction.data)
    /\ b_log' = IF \A k \in 1 .. Len(prediction.data) : MaxOf(prediction.data[k]) # 0
                THEN b_log
                ELSE Append(b_log, BenchEvent(Warning))
    /\ UNCHANGED <<b_args, b_idx, batch_no, metrics_values, b_result, maskVars, sim, placeVars,
                   procVars, prVars>>

\* Lines 140-161: the metrics are accumulated, the model is reset, idx advances
BenchMetrics ==
    /\ b_pc = "metrics"
    /\ b_pc' = "batch"
    /\ LET m == MetricsLoop(1, metrics_values, b_log)
       IN  /\ metrics_values' = m.values
           /\ b_log' = Append(m.log, BenchEvent("reset"))
    /\ b_idx' = b_idx + b_args.batchsize
    /\ batch_no' = batch_no + 1
    /\ UNCHANGED <<b_args, prediction, b_result, maskVars, sim, placeVars, procVars, prVars>>

\* Lines 163-167: the sums are divided by len(dataloader) and returned; the quotient
\* is kept exact as the sums and the divisor
BenchReturn ==
    /\ b_pc = "batch"
    /\ batch_no = NumBatches(Len(b_args.outputs), b_args.batchsize)
    /\ IF batch_no = 0 /\ Len(b_args.metrics) > 0
       THEN /\ b_pc' = "failed"
            /\ b_result' = [status |-> "ZeroDivisionError", values |-> <<>>, over |-> 0]
       ELSE /\ b_pc' = "done"
            /\ b_result' = [status |-> "returned", values |-> metrics_values, over |-> batch_no]
    /\ UNCHANGED <<b_args, b_idx, batch_no, prediction, metrics_values, b_log, maskVars, sim,
                   placeVars, procVars, prVars>>

\* Predictions of two pixels: all zero, positive, and negative with a zero maximum
Images == {<<0, 0>>, <<2, 4>>, <<-1, 0>>}

BenchArgs ==
    [batchsize : 1 .. MaxBatch,
     outputs : SeqsUpTo(Images, MaxSamples),
     channels : {1, 3},
     save_idx : {NoneArg, SeqArg(<<>>), SeqArg(<<0>>), SeqArg(<<1, 2>>), SeqArg(<<3>>)},
     metrics : {<<"MSE", "LPIPS_Vgg", "ReconstructionError">>, <<"PSNR">>}]

InitBench ==
    /\ Fresh(NoArgs) /\ PlaceIdle /\ ProcIdle /\ PrIdle
    /\ b_pc = "call"
    /\ b_args \in BenchArgs
    /\ b_idx = 0
    /\ batch_no = 0
    /\ prediction = <<>>
    /\ metrics_values = <<>>
    /\ b_log = <<>>
    /\ b_result = [status |-> "none", values |-> <<>>, over |-> 0]

NextBench == BenchBegin \/ BenchPredict \/ BenchNormalize \/ BenchMetrics \/ BenchReturn

SpecBench == InitBench /\ [][NextBench]_vars


\* The predictions the model gives for the n-th batch
OutputsOf(n) == [i \in 1 .. Len(BatchSamples(n)) |-> b_args.outputs[BatchSamples(n)[i] + 1]]

\* The normalisation denominator of the n-th batch has a zero
HasZeroMax(n) == \E i \in 1 .. Len(OutputsOf(n)) : MaxOf(OutputsOf(n)[i]) = 0

\* The positions of the log at which op was done for the n-th batch
EventsAt(op, n) == {k \in 1 .. Len(b_log) : b_log[k].op = op /\ b_log[k].batch = n}

\* The n-th batch, whose denominator has a zero, went through the rest of the loop
\* body: one warning, then every metric accumulated once on the prediction as the
\* model gave it, then the reset of the model
ZeroBatchCompleted(n) ==
    /\ Cardinality(EventsAt(Warning, n)) = 1
    /\ \A m \in 1 .. Len(b_args.metrics) :
          \E k \in EventsAt("metric", n) :
             /\ b_log[k].name = b_args.metrics[m]
             /\ \A w \in EventsAt(Warning, n) : w < k
             /\ \E r \in EventsAt("reset", n) : k < r
             /\ b_args.metrics[m] # "ReconstructionError" =>
                   b_log[k].value
                     = MetricValue(b_args.metrics[m],
                                   [data |-> OutputsOf(n),
                                    scale |-> [i \in 1 .. Len(OutputsOf(n)) |-> 1]])
    /\ Cardinality(EventsAt("metric", n)) = Len(b_args.metrics)

\* The sum of the values logged for the m-th metric
Accumulated(m) ==
    LET hits == SelectSeq(b_log, LAMBDA e : e.op = "metric" /\ e.name = b_args.metrics[m])
    IN  SumOver([k \in 1 .. Len(hits) |-> hits[k].value], Len(hits))

SavesOf(k) == {e \in 1 .. Len(b_log) : b_log[e].op = "save" /\ b_log[e].value = k}

\* The dataset positions listed in save_idx
Requested ==
    IF b_args.save_idx.kind = "none" THEN {}
    ELSE {k \in 0 .. (Len(b_args.outputs) - 1) :
            \E j \in 1 .. Len(b_args.save_idx.v) : b_args.save_idx.v[j] = k}

\* C21: for every batch size and every save_idx, the running sample index at the
\* start of the n-th batch is n times the batch size, so every prediction saved is
\* saved under the dataset index of its sample, and when benchmark returns every
\* sample whose dataset index is in save_idx has been saved exactly once.
C21_SavedUnderDatasetIndex ==
    /\ b_pc = "batch" => b_idx = batch_no * b_args.batchsize
    /\ \A e \in 1 .. Len(b_log) :
          b_log[e].op = "save" => b_log[e].name = b_log[e].value
    /\ b_pc = "done" => \A k \in Requested : Cardinality(SavesOf(k)) = 1

====
